---- MODULE Spec2Model ----
(***************************************************************************)
(* Booking lifecycle, availability slots, provider search, reviews and     *)
(* ratings, and access control of the Buzz service-marketplace backend.    *)
(*                                                                         *)
(* The durable store is modelled by its tables: bookings and reviews (one  *)
(* row per sequence element, the row's id is its position),                *)
(* provider_profiles and provider_availability.  A route handler whose     *)
(* interleavings matter is modelled twice: as one atomic action (requests  *)
(* served one at a time) and as the sequence of its database round trips   *)
(* (requests served concurrently: SpecConc, SpecReviewConc,                *)
(* SpecAvailabilityConc, SpecReviewRace).                                  *)
(*                                                                         *)
(* A datetime is a number of time units; TimesPerDay units make a day and  *)
(* instant 0 is 00:00 of a Monday.  The handlers take instants that passed *)
(* the schema validators of BookingCreate and BookingRescheduleRequest;    *)
(* SpecClock puts the validators and the server's clock in front of them.  *)
(* An average rating is held as an exact fraction in lowest terms.         *)
(* SpecSearch applies the search query to one request over any table of    *)
(* provider rows; SpecAccess puts the dependencies of core/security.py in  *)
(* front of the handlers.                                                  *)
(***************************************************************************)
EXTENDS Integers, Sequences, FiniteSets, Bags, TLC

\* ---------------------------------------------------------------- bounds
NumProviders == 2
NumCustomers == 2
MaxBookings == 2
TimesPerDay == 2
MaxInstant == 2
MaxSlots == 2
MaxRequests == 2
NumCategories == 1

Providers == 1..NumProviders
\* Provider ids a request may carry: one of them names no row of provider_profiles
ProviderIds == 1..(NumProviders + 1)
Customers == 1..NumCustomers
BookingIds == 1..MaxBookings
Instants == 0..MaxInstant
Times == 0..(TimesPerDay - 1)
CategoryIds == 1..NumCategories

\* The users: the customers, then one user per provider profile, an admin, a
\* user with role provider and no provider profile, and last a user without a
\* row in profiles.  RoleDirectory is the table profiles before any request.
Admin == NumCustomers + NumProviders + 1
Unbound == Admin + 1
NoProfile == Unbound + 1

RoleDirectory ==
    [u \in 1..Unbound |->
        [role |-> IF u \in Customers THEN "customer"
                  ELSE IF u = Admin THEN "admin" ELSE "provider"]]

\* ------------------------------------------------------------ data model
BookingStatus == {"pending", "confirmed", "rescheduled", "completed", "cancelled"}

\* The status list of every conflict query: status IN ('pending', 'confirmed', 'rescheduled')
ActiveStatuses == {"pending", "confirmed", "rescheduled"}

VARIABLES
    bookings,               \* table bookings: sequence of rows, id = index
    provider_profiles,      \* table provider_profiles: provider id -> row
    provider_availability,  \* table provider_availability: set of slot rows
    resp,                   \* the response of the request that finished last
    reqs,                   \* bag of requests in flight (SpecConc), with their locals
    reviews,                \* table reviews: sequence of rows, id = index
    now,                    \* datetime.now() of the server
    categories,             \* table categories: the ids of its rows
    profiles,               \* table profiles: user id -> row (the role)
    rating_before           \* history: the avg_rating the last created review found

vars == <<bookings, provider_profiles, provider_availability, resp, reqs,
          reviews, now, categories, profiles, rating_before>>

\* datetime.weekday(): Monday = 0 .. Sunday = 6
weekday(v) == (v \div TimesPerDay) % 7

\* "Convert to Sunday=0 format for database"
db_day(v) == (weekday(v) + 1) % 7

\* datetime.time(): the time-of-day component
time(v) == v % TimesPerDay

\* Variant: the conflict query of create_booking has no status filter
conflict_check_any_status(bk, provider_id, scheduled_for) ==
    \E i \in 1..Len(bk) :
        /\ bk[i].provider_id = provider_id
        /\ bk[i].scheduled_for = scheduled_for

\* Variant: the conflict query of create_booking looks at confirmed bookings only
conflict_check_confirmed_only(bk, provider_id, scheduled_for) ==
    \E i \in 1..Len(bk) :
        /\ bk[i].provider_id = provider_id
        /\ bk[i].status = "confirmed"
        /\ bk[i].scheduled_for = scheduled_for

\* SELECT id FROM bookings WHERE provider_id = $1
\*   AND status IN ('pending', 'confirmed', 'rescheduled') AND scheduled_for = $2
conflict_check(bk, provider_id, scheduled_for) ==
    \E i \in 1..Len(bk) :
        /\ bk[i].provider_id = provider_id
        /\ bk[i].status \in ActiveStatuses
        /\ bk[i].scheduled_for = scheduled_for

\* The same query with "AND id != $2" (accept_booking, reschedule_booking)
conflict(bk, provider_id, booking_id, scheduled_for) ==
    \E i \in 1..Len(bk) :
        /\ bk[i].provider_id = provider_id
        /\ i /= booking_id
        /\ bk[i].status \in ActiveStatuses
        /\ bk[i].scheduled_for = scheduled_for

\* Variant: the availability query uses Python's weekday (Monday = 0) unconverted
availability_check_monday_zero(av, provider_id, v) ==
    \E s \in av :
        /\ s.provider_id = provider_id
        /\ s.day_of_week = weekday(v)
        /\ s.start_time <= time(v)
        /\ s.end_time >= time(v)

\* Variant: the availability query treats the slot as half-open (end_time > $3)
availability_check_half_open(av, provider_id, v) ==
    \E s \in av :
        /\ s.provider_id = provider_id
        /\ s.day_of_week = db_day(v)
        /\ s.start_time <= time(v)
        /\ s.end_time > time(v)

\* SELECT * FROM provider_availability WHERE provider_id = $1 AND day_of_week = $2
\*   AND start_time <= $3 AND end_time >= $3
availability_check(av, provider_id, v) ==
    \E s \in av :
        /\ s.provider_id = provider_id
        /\ s.day_of_week = db_day(v)
        /\ s.start_time <= time(v)
        /\ s.end_time >= time(v)

\* Variant: the booking is selected by id alone
booking_result_any_owner(bk, booking_id, column, caller) ==
    booking_id \in 1..Len(bk)

\* select("*").eq("id", booking_id).eq(<owner column>, <caller>).single()
booking_result(bk, booking_id, column, caller) ==
    /\ booking_id \in 1..Len(bk)
    /\ bk[booking_id][column] = caller

\* Variant: the provider lookup does not look at is_verified
provider_not_found_unverified_accepted(pp, provider_id) ==
    provider_id \notin DOMAIN pp

\* provider_result = select("*").eq("id", provider_id).single().execute()
\* if not provider_result.data or not provider_result.data.get("is_verified")
provider_not_found(pp, provider_id) ==
    \/ provider_id \notin DOMAIN pp
    \/ ~pp[provider_id].is_verified

\* A NULL column, Python's None
None == -1

\* "total_price": float(total_price) if total_price else None
\* (a base price of 0 is falsy)
total_price_column(total_price) == IF total_price /= 0 THEN total_price ELSE None

\* A float column holds a rational number <<numerator, denominator>> in lowest terms.
Zero == <<0, 1>>

\* HTTPException(status_code, detail) and the success responses
\* current_status is the status the handler read from the booking row
\* (booking["status"]), "" when it read none.
Response(op, status_code, detail, current_status) ==
    [op |-> op, status_code |-> status_code, detail |-> detail,
     current_status |-> current_status]

NoResponse == Response("none", 0, "", "")

\* ------------------------------------------- atomic handlers (one at a time)

\* POST /customers/bookings
create_booking(customer, provider_id, scheduled_for) ==
    /\ IF provider_not_found(provider_profiles, provider_id)
       THEN /\ resp' = Response("create", 404, "Provider not found or not verified", "")
            /\ UNCHANGED bookings
       ELSE IF conflict_check(bookings, provider_id, scheduled_for)
       THEN /\ resp' = Response("create", 409, "Provider is already booked at this time", "")
            /\ UNCHANGED bookings
       ELSE IF ~availability_check(provider_availability, provider_id, scheduled_for)
       THEN /\ resp' = Response("create", 400, "Provider is not available at this time", "")
            /\ UNCHANGED bookings
       ELSE /\ Len(bookings) < MaxBookings
            /\ bookings' = Append(bookings,
                    [customer_id |-> customer,
                     provider_id |-> provider_id,
                     status |-> "pending",
                     scheduled_for |-> scheduled_for,
                     total_price |->
                        total_price_column(provider_profiles[provider_id].base_price)])
            /\ resp' = Response("create", 201, "", "")
    /\ UNCHANGED <<provider_profiles, provider_availability, reqs, reviews, now, categories, profiles, rating_before>>

\* Variant: cancel accepts every non-terminal status
cancel_booking_any_active(customer, booking_id) ==
    /\ IF ~booking_result(bookings, booking_id, "customer_id", customer)
       THEN /\ resp' = Response("cancel", 404, "Booking not found", "")
            /\ UNCHANGED bookings
       ELSE IF bookings[booking_id].status \notin {"pending", "confirmed", "rescheduled"}
       THEN /\ resp' = Response("cancel", 400, "Cannot cancel booking with status", bookings[booking_id].status)
            /\ UNCHANGED bookings
       ELSE /\ bookings' = [bookings EXCEPT ![booking_id].status = "cancelled"]
            /\ resp' = Response("cancel", 200, "", bookings[booking_id].status)
    /\ UNCHANGED <<provider_profiles, provider_availability, reqs, reviews, now, categories, profiles, rating_before>>

\* PUT /customers/bookings/{booking_id}/cancel
cancel_booking(customer, booking_id) ==
    /\ IF ~booking_result(bookings, booking_id, "customer_id", customer)
       THEN /\ resp' = Response("cancel", 404, "Booking not found", "")
            /\ UNCHANGED bookings
       ELSE IF bookings[booking_id].status \notin {"pending", "confirmed"}
       THEN /\ resp' = Response("cancel", 400, "Cannot cancel booking with status", bookings[booking_id].status)
            /\ UNCHANGED bookings
       ELSE /\ bookings' = [bookings EXCEPT ![booking_id].status = "cancelled"]
            /\ resp' = Response("cancel", 200, "", bookings[booking_id].status)
    /\ UNCHANGED <<provider_profiles, provider_availability, reqs, reviews, now, categories, profiles, rating_before>>

\* Variant: accept without the conflict re-check
accept_booking_no_recheck(provider_id, booking_id) ==
    /\ IF ~booking_result(bookings, booking_id, "provider_id", provider_id)
       THEN /\ resp' = Response("accept", 404, "Booking not found", "")
            /\ UNCHANGED bookings
       ELSE IF bookings[booking_id].status /= "pending"
       THEN /\ resp' = Response("accept", 400, "Can only accept pending bookings", bookings[booking_id].status)
            /\ UNCHANGED bookings
       ELSE /\ bookings' = [bookings EXCEPT ![booking_id].status = "confirmed"]
            /\ resp' = Response("accept", 200, "", bookings[booking_id].status)
    /\ UNCHANGED <<provider_profiles, provider_availability, reqs, reviews, now, categories, profiles, rating_before>>

\* Variant: accept also cancels the provider's other pending bookings
accept_booking_cancels_rivals(provider_id, booking_id) ==
    /\ IF ~booking_result(bookings, booking_id, "provider_id", provider_id)
       THEN /\ resp' = Response("accept", 404, "Booking not found", "")
            /\ UNCHANGED bookings
       ELSE IF bookings[booking_id].status /= "pending"
       THEN /\ resp' = Response("accept", 400, "Can only accept pending bookings", bookings[booking_id].status)
            /\ UNCHANGED bookings
       ELSE IF conflict(bookings, provider_id, booking_id, bookings[booking_id].scheduled_for)
       THEN /\ resp' = Response("accept", 409, "Another booking already exists at this time", bookings[booking_id].status)
            /\ UNCHANGED bookings
       ELSE /\ bookings' =
                    [j \in 1..Len(bookings) |->
                        IF j = booking_id THEN [bookings[j] EXCEPT !.status = "confirmed"]
                        ELSE IF bookings[j].provider_id = provider_id /\ bookings[j].status = "pending"
                        THEN [bookings[j] EXCEPT !.status = "cancelled"]
                        ELSE bookings[j]]
            /\ resp' = Response("accept", 200, "", bookings[booking_id].status)
    /\ UNCHANGED <<provider_profiles, provider_availability, reqs, reviews, now, categories, profiles, rating_before>>

\* PUT /providers/bookings/{booking_id}/accept
accept_booking(provider_id, booking_id) ==
    /\ IF ~booking_result(bookings, booking_id, "provider_id", provider_id)
       THEN /\ resp' = Response("accept", 404, "Booking not found", "")
            /\ UNCHANGED bookings
       ELSE IF bookings[booking_id].status /= "pending"
       THEN /\ resp' = Response("accept", 400, "Can only accept pending bookings", bookings[booking_id].status)
            /\ UNCHANGED bookings
       ELSE IF conflict(bookings, provider_id, booking_id, bookings[booking_id].scheduled_for)
       THEN /\ resp' = Response("accept", 409, "Another booking already exists at this time", bookings[booking_id].status)
            /\ UNCHANGED bookings
       ELSE /\ bookings' = [bookings EXCEPT ![booking_id].status = "confirmed"]
            /\ resp' = Response("accept", 200, "", bookings[booking_id].status)
    /\ UNCHANGED <<provider_profiles, provider_availability, reqs, reviews, now, categories, profiles, rating_before>>

\* Variant: reject re-checks for a conflicting booking as accept does
reject_booking_rechecks(provider_id, booking_id) ==
    /\ IF ~booking_result(bookings, booking_id, "provider_id", provider_id)
       THEN /\ resp' = Response("reject", 404, "Booking not found", "")
            /\ UNCHANGED bookings
       ELSE IF bookings[booking_id].status /= "pending"
       THEN /\ resp' = Response("reject", 400, "Can only reject pending bookings", bookings[booking_id].status)
            /\ UNCHANGED bookings
       ELSE IF conflict(bookings, provider_id, booking_id, bookings[booking_id].scheduled_for)
       THEN /\ resp' = Response("reject", 409, "Another booking already exists at this time", bookings[booking_id].status)
            /\ UNCHANGED bookings
       ELSE /\ bookings' = [bookings EXCEPT ![booking_id].status = "cancelled"]
            /\ resp' = Response("reject", 200, "", bookings[booking_id].status)
    /\ UNCHANGED <<provider_profiles, provider_availability, reqs, reviews, now, categories, profiles, rating_before>>

\* PUT /providers/bookings/{booking_id}/reject
reject_booking(provider_id, booking_id) ==
    /\ IF ~booking_result(bookings, booking_id, "provider_id", provider_id)
       THEN /\ resp' = Response("reject", 404, "Booking not found", "")
            /\ UNCHANGED bookings
       ELSE IF bookings[booking_id].status /= "pending"
       THEN /\ resp' = Response("reject", 400, "Can only reject pending bookings", bookings[booking_id].status)
            /\ UNCHANGED bookings
       ELSE /\ bookings' = [bookings EXCEPT ![booking_id].status = "cancelled"]
            /\ resp' = Response("reject", 200, "", bookings[booking_id].status)
    /\ UNCHANGED <<provider_profiles, provider_availability, reqs, reviews, now, categories, profiles, rating_before>>

\* PUT /providers/bookings/{booking_id}/reschedule
reschedule_booking(provider_id, booking_id, new_scheduled_for) ==
    /\ IF ~booking_result(bookings, booking_id, "provider_id", provider_id)
       THEN /\ resp' = Response("reschedule", 404, "Booking not found", "")
            /\ UNCHANGED bookings
       ELSE IF bookings[booking_id].status \notin {"pending", "confirmed", "rescheduled"}
       THEN /\ resp' = Response("reschedule", 400, "Cannot reschedule booking with status", bookings[booking_id].status)
            /\ UNCHANGED bookings
       ELSE IF conflict(bookings, provider_id, booking_id, new_scheduled_for)
       THEN /\ resp' = Response("reschedule", 409, "Another booking already exists at the new time", bookings[booking_id].status)
            /\ UNCHANGED bookings
       ELSE IF ~availability_check(provider_availability, provider_id, new_scheduled_for)
       THEN /\ resp' = Response("reschedule", 400, "Provider is not available at the new time", bookings[booking_id].status)
            /\ UNCHANGED bookings
       ELSE /\ bookings' = [bookings EXCEPT ![booking_id].status = "rescheduled",
                                            ![booking_id].scheduled_for = new_scheduled_for]
            /\ resp' = Response("reschedule", 200, "", bookings[booking_id].status)
    /\ UNCHANGED <<provider_profiles, provider_availability, reqs, reviews, now, categories, profiles, rating_before>>

\* Variant: complete accepts every non-terminal status
complete_booking_any_active(provider_id, booking_id) ==
    /\ IF ~booking_result(bookings, booking_id, "provider_id", provider_id)
       THEN /\ resp' = Response("complete", 404, "Booking not found", "")
            /\ UNCHANGED bookings
       ELSE IF bookings[booking_id].status \notin {"pending", "confirmed", "rescheduled"}
       THEN /\ resp' = Response("complete", 400, "Can only complete confirmed or rescheduled bookings", bookings[booking_id].status)
            /\ UNCHANGED bookings
       ELSE /\ bookings' = [bookings EXCEPT ![booking_id].status = "completed"]
            /\ resp' = Response("complete", 200, "", bookings[booking_id].status)
    /\ UNCHANGED <<provider_profiles, provider_availability, reqs, reviews, now, categories, profiles, rating_before>>

\* PUT /providers/bookings/{booking_id}/complete
complete_booking(provider_id, booking_id) ==
    /\ IF ~booking_result(bookings, booking_id, "provider_id", provider_id)
       THEN /\ resp' = Response("complete", 404, "Booking not found", "")
            /\ UNCHANGED bookings
       ELSE IF bookings[booking_id].status \notin {"confirmed", "rescheduled"}
       THEN /\ resp' = Response("complete", 400, "Can only complete confirmed or rescheduled bookings", bookings[booking_id].status)
            /\ UNCHANGED bookings
       ELSE /\ bookings' = [bookings EXCEPT ![booking_id].status = "completed"]
            /\ resp' = Response("complete", 200, "", bookings[booking_id].status)
    /\ UNCHANGED <<provider_profiles, provider_availability, reqs, reviews, now, categories, profiles, rating_before>>

\* ------------------------------------------------------------ initial state

\* Rows of provider_availability as create_availability stores them:
\* day_of_week in 0..6 (Sunday = 0), end_time after start_time.
AvailabilityRows ==
    {s \in [provider_id : Providers, day_of_week : 0..6,
            start_time : Times, end_time : Times] :
        /\ s.start_time < s.end_time
        /\ \E v \in Instants : s.day_of_week = db_day(v)}

\* Variant: the overlap test without its third clause (an existing slot inside the new one)
overlapping_no_containment(e, start_time, end_time) ==
    \/ (e.start_time <= start_time /\ e.end_time > start_time)
    \/ (e.start_time < end_time /\ e.end_time >= end_time)

\* The overlap query of create_availability: existing row e against new (start, end)
overlapping(e, start_time, end_time) ==
    \/ (e.start_time <= start_time /\ e.end_time > start_time)
    \/ (e.start_time < end_time /\ e.end_time >= end_time)
    \/ (e.start_time >= start_time /\ e.end_time <= end_time)

\* Tables that a sequence of create_availability calls leaves behind
AvailabilityTables ==
    {tbl \in SUBSET AvailabilityRows :
        /\ Cardinality(tbl) <= MaxSlots
        /\ \A a, b \in tbl :
            (a /= b /\ a.provider_id = b.provider_id /\ a.day_of_week = b.day_of_week)
                => ~overlapping(a, b.start_time, b.end_time)}

\* Provider p offers base price p - 1, so that a base price of 0 occurs
\* A provider without reviews has avg_rating 0.
ProfileRow(p, is_verified) ==
    [is_verified |-> is_verified, base_price |-> p - 1, avg_rating |-> Zero]

NoRequests == EmptyBag

NoReviews == <<>>

\* A clock reading earlier than every instant a request carries
BeforeInstants == 0 - 1

Init ==
    /\ bookings = <<>>
    /\ \E verified \in [Providers -> BOOLEAN] :
          provider_profiles = [p \in Providers |-> ProfileRow(p, verified[p])]
    /\ provider_availability \in AvailabilityTables
    /\ resp = NoResponse
    /\ reqs = NoRequests
    /\ reviews = NoReviews
    /\ now = BeforeInstants
    /\ categories = CategoryIds
    /\ profiles = RoleDirectory
    /\ rating_before = Zero

Next ==
    \/ \E c \in Customers, p \in ProviderIds, t \in Instants : create_booking(c, p, t)
    \/ \E c \in Customers, b \in BookingIds : cancel_booking(c, b)
    \/ \E p \in Providers, b \in BookingIds : accept_booking(p, b)
    \/ \E p \in Providers, b \in BookingIds : reject_booking(p, b)
    \/ \E p \in Providers, b \in BookingIds, t \in Instants : reschedule_booking(p, b, t)
    \/ \E p \in Providers, b \in BookingIds : complete_booking(p, b)

Spec == Init /\ [][Next]_vars

\* Requests served one at a time, starting from two pending bookings of one
\* provider at one instant: the rows two create_booking requests leave behind
\* when both ran their conflict query before either inserted (SpecConc reaches
\* them), with the provider's slots and verification as they may be by then.
PendingRow(customer, provider_id, scheduled_for) ==
    [customer_id |-> customer,
     provider_id |-> provider_id,
     status |-> "pending",
     scheduled_for |-> scheduled_for,
     total_price |-> total_price_column(ProfileRow(provider_id, TRUE).base_price)]

RacedTables ==
    {<<PendingRow(1, p, t), PendingRow(NumCustomers, p, t)>> : p \in Providers, t \in Instants}

InitRaced ==
    /\ bookings \in {<<>>} \cup RacedTables
    /\ \E verified \in [Providers -> BOOLEAN] :
          provider_profiles = [p \in Providers |-> ProfileRow(p, verified[p])]
    /\ provider_availability \in AvailabilityTables
    /\ resp = NoResponse
    /\ reqs = NoRequests
    /\ reviews = NoReviews
    /\ now = BeforeInstants
    /\ categories = CategoryIds
    /\ profiles = RoleDirectory
    /\ rating_before = Zero

SpecRaced == InitRaced /\ [][Next]_vars

\* ------------------------------------------ an admin verifies and unverifies
\* PUT /admins/providers/{provider_id}/verify
verify_provider(provider_id, is_verified) ==
    /\ IF provider_id \notin DOMAIN provider_profiles
       THEN /\ resp' = Response("verify", 404, "Provider not found", "")
            /\ UNCHANGED provider_profiles
       ELSE /\ provider_profiles' =
                    [provider_profiles EXCEPT ![provider_id].is_verified = is_verified]
            /\ resp' = Response("verify", 200, "", "")
    /\ UNCHANGED <<bookings, provider_availability, reqs, reviews, now, categories, profiles, rating_before>>

\* Every provider works on the first day, all day; verification as it may be.
InitVerify ==
    /\ bookings = <<>>
    /\ \E verified \in [Providers -> BOOLEAN] :
          provider_profiles = [p \in Providers |-> ProfileRow(p, verified[p])]
    /\ provider_availability =
          {[provider_id |-> p, day_of_week |-> db_day(0),
            start_time |-> 0, end_time |-> TimesPerDay - 1] : p \in Providers}
    /\ resp = NoResponse
    /\ reqs = NoRequests
    /\ reviews = NoReviews
    /\ now = BeforeInstants
    /\ categories = CategoryIds
    /\ profiles = RoleDirectory
    /\ rating_before = Zero

NextVerify ==
    \/ Next
    \/ \E p \in ProviderIds, is_verified \in BOOLEAN : verify_provider(p, is_verified)

SpecVerify == InitVerify /\ [][NextVerify]_vars

\* --------------------------------------------- request bodies and the clock
\* A datetime of a request body: the instant it names and whether it carries a
\* UTC offset (aware) or not (naive); pydantic parses both.
Datetimes == [t : Instants, aware : BOOLEAN]

\* @validator scheduled_for_must_be_future: if v <= datetime.now(): raise ValueError
\* datetime.now() is naive; comparing an aware datetime with it raises TypeError.
scheduled_for_must_be_future(v, clock) ==
    IF v.aware THEN "TypeError"
    ELSE IF v.t <= clock THEN "ValueError"
    ELSE "ok"

\* What the framework answers when the body does not validate: a ValueError of
\* a validator becomes a 422 validation error, any other exception a 500.
validation_response(op, error) ==
    IF error = "ValueError"
    THEN Response(op, 422, "Scheduled time must be in the future", "")
    ELSE Response(op, 500, "Internal Server Error", "")

\* POST /customers/bookings with body BookingCreate
post_bookings(customer, provider_id, scheduled_for) ==
    IF scheduled_for_must_be_future(scheduled_for, now) /= "ok"
    THEN /\ resp' = validation_response("create",
                        scheduled_for_must_be_future(scheduled_for, now))
         /\ UNCHANGED <<bookings, provider_profiles, provider_availability, reqs,
                        reviews, now, categories, profiles, rating_before>>
    ELSE create_booking(customer, provider_id, scheduled_for.t)

\* PUT /providers/bookings/{booking_id}/reschedule with body BookingRescheduleRequest
put_bookings_reschedule(provider_id, booking_id, new_scheduled_for) ==
    IF scheduled_for_must_be_future(new_scheduled_for, now) /= "ok"
    THEN /\ resp' = validation_response("reschedule",
                        scheduled_for_must_be_future(new_scheduled_for, now))
         /\ UNCHANGED <<bookings, provider_profiles, provider_availability, reqs,
                        reviews, now, categories, profiles, rating_before>>
    ELSE reschedule_booking(provider_id, booking_id, new_scheduled_for.t)

\* Time passes.
Tick ==
    /\ now < MaxInstant
    /\ now' = now + 1
    /\ UNCHANGED <<bookings, provider_profiles, provider_availability, resp, reqs,
                   reviews, categories, profiles, rating_before>>

\* Every provider verified and working every day, all day.
InitClock ==
    /\ bookings = <<>>
    /\ provider_profiles = [p \in Providers |-> ProfileRow(p, TRUE)]
    /\ provider_availability =
          {[provider_id |-> p, day_of_week |-> d,
            start_time |-> 0, end_time |-> TimesPerDay - 1] : p \in Providers, d \in 0..6}
    /\ resp = NoResponse
    /\ reqs = NoRequests
    /\ reviews = NoReviews
    /\ now = BeforeInstants
    /\ categories = CategoryIds
    /\ profiles = RoleDirectory
    /\ rating_before = Zero

NextClock ==
    \/ Tick
    \/ \E c \in Customers, p \in ProviderIds, v \in Datetimes : post_bookings(c, p, v)
    \/ \E c \in Customers, b \in BookingIds : cancel_booking(c, b)
    \/ \E p \in Providers, b \in BookingIds : accept_booking(p, b)
    \/ \E p \in Providers, b \in BookingIds : reject_booking(p, b)
    \/ \E p \in Providers, b \in BookingIds, v \in Datetimes :
          put_bookings_reschedule(p, b, v)
    \/ \E p \in Providers, b \in BookingIds : complete_booking(p, b)

SpecClock == InitClock /\ [][NextClock]_vars

\* ------------------------------------------------------ reviews and ratings
MaxReviews == 3

\* rating: int = Field(..., ge=1, le=5)
Ratings == 1..5

ReviewIds == 1..MaxReviews

\* A row of reviews; the row a DELETE removed leaves its id unused for ever.
ReviewRow(booking_id, customer_id, provider_id, rating) ==
    [booking_id |-> booking_id, customer_id |-> customer_id,
     provider_id |-> provider_id, rating |-> rating]

Deleted == ReviewRow(0, 0, 0, 0)

\* SQL NULL in a float column
NULL == <<>>

RECURSIVE GCD(_, _)
GCD(a, b) == IF b = 0 THEN a ELSE GCD(b, a % b)

\* The ids of the rows of reviews WHERE provider_id = $1
reviews_of(rv, provider_id) ==
    {i \in 1..Len(rv) : rv[i] /= Deleted /\ rv[i].provider_id = provider_id}

RECURSIVE SUM(_, _)
SUM(rv, ids) ==
    IF ids = {} THEN 0
    ELSE LET i == CHOOSE x \in ids : TRUE IN rv[i].rating + SUM(rv, ids \ {i})

\* Variant: the average is taken over the reviews of every provider
AVG_all_providers(rv, provider_id) ==
    LET ids == {i \in 1..Len(rv) : rv[i] /= Deleted}
        g == GCD(SUM(rv, ids), Cardinality(ids))
    IN IF ids = {} THEN NULL
       ELSE <<SUM(rv, ids) \div g, Cardinality(ids) \div g>>

\* SELECT AVG(rating)::float FROM reviews WHERE provider_id = $1
\* (NULL when the provider has no review)
AVG(rv, provider_id) ==
    LET ids == reviews_of(rv, provider_id)
        g == GCD(SUM(rv, ids), Cardinality(ids))
    IN IF ids = {} THEN NULL
       ELSE <<SUM(rv, ids) \div g, Cardinality(ids) \div g>>

COALESCE(value, default) == IF value = NULL THEN default ELSE value

\* SELECT id FROM reviews WHERE booking_id = $1
existing_review(rv, booking_id) ==
    \E i \in 1..Len(rv) : rv[i] /= Deleted /\ rv[i].booking_id = booking_id

\* Variant: a review is accepted for a booking in any status
create_review_any_status(customer, booking_id, rating) ==
    /\ IF booking_id \notin 1..Len(bookings)
       THEN /\ resp' = Response("create_review", 404, "Booking not found", "")
            /\ UNCHANGED <<reviews, provider_profiles, rating_before>>
       ELSE IF bookings[booking_id].customer_id /= customer
       THEN /\ resp' = Response("create_review", 403, "You can only review your own bookings",
                                bookings[booking_id].status)
            /\ UNCHANGED <<reviews, provider_profiles, rating_before>>
       ELSE IF existing_review(reviews, booking_id)
       THEN /\ resp' = Response("create_review", 409, "Review already exists for this booking",
                                bookings[booking_id].status)
            /\ UNCHANGED <<reviews, provider_profiles, rating_before>>
       ELSE /\ Len(reviews) < MaxReviews
            /\ reviews' = Append(reviews,
                    ReviewRow(booking_id, customer, bookings[booking_id].provider_id, rating))
            /\ provider_profiles' =
                    [provider_profiles EXCEPT ![bookings[booking_id].provider_id].avg_rating =
                        AVG(reviews', bookings[booking_id].provider_id)]
            /\ rating_before' = provider_profiles[bookings[booking_id].provider_id].avg_rating
            /\ resp' = Response("create_review", 201, "", bookings[booking_id].status)
    /\ UNCHANGED <<bookings, provider_availability, reqs, now, categories, profiles>>

\* Variant: the review carries the provider of the table's first booking
create_review_first_provider(customer, booking_id, rating) ==
    /\ IF booking_id \notin 1..Len(bookings)
       THEN /\ resp' = Response("create_review", 404, "Booking not found", "")
            /\ UNCHANGED <<reviews, provider_profiles, rating_before>>
       ELSE IF bookings[booking_id].customer_id /= customer
       THEN /\ resp' = Response("create_review", 403, "You can only review your own bookings",
                                bookings[booking_id].status)
            /\ UNCHANGED <<reviews, provider_profiles, rating_before>>
       ELSE IF bookings[booking_id].status /= "completed"
       THEN /\ resp' = Response("create_review", 400, "You can only review completed bookings",
                                bookings[booking_id].status)
            /\ UNCHANGED <<reviews, provider_profiles, rating_before>>
       ELSE IF existing_review(reviews, booking_id)
       THEN /\ resp' = Response("create_review", 409, "Review already exists for this booking",
                                bookings[booking_id].status)
            /\ UNCHANGED <<reviews, provider_profiles, rating_before>>
       ELSE /\ Len(reviews) < MaxReviews
            /\ reviews' = Append(reviews,
                    ReviewRow(booking_id, customer, bookings[1].provider_id, rating))
            /\ provider_profiles' =
                    [provider_profiles EXCEPT ![bookings[booking_id].provider_id].avg_rating =
                        AVG(reviews', bookings[booking_id].provider_id)]
            /\ rating_before' = provider_profiles[bookings[booking_id].provider_id].avg_rating
            /\ resp' = Response("create_review", 201, "", bookings[booking_id].status)
    /\ UNCHANGED <<bookings, provider_availability, reqs, now, categories, profiles>>

\* POST /customers/reviews
create_review(customer, booking_id, rating) ==
    /\ IF booking_id \notin 1..Len(bookings)
       THEN /\ resp' = Response("create_review", 404, "Booking not found", "")
            /\ UNCHANGED <<reviews, provider_profiles, rating_before>>
       ELSE IF bookings[booking_id].customer_id /= customer
       THEN /\ resp' = Response("create_review", 403, "You can only review your own bookings",
                                bookings[booking_id].status)
            /\ UNCHANGED <<reviews, provider_profiles, rating_before>>
       ELSE IF bookings[booking_id].status /= "completed"
       THEN /\ resp' = Response("create_review", 400, "You can only review completed bookings",
                                bookings[booking_id].status)
            /\ UNCHANGED <<reviews, provider_profiles, rating_before>>
       ELSE IF existing_review(reviews, booking_id)
       THEN /\ resp' = Response("create_review", 409, "Review already exists for this booking",
                                bookings[booking_id].status)
            /\ UNCHANGED <<reviews, provider_profiles, rating_before>>
       ELSE /\ Len(reviews) < MaxReviews
            /\ reviews' = Append(reviews,
                    ReviewRow(booking_id, customer, bookings[booking_id].provider_id, rating))
            /\ provider_profiles' =
                    [provider_profiles EXCEPT ![bookings[booking_id].provider_id].avg_rating =
                        AVG(reviews', bookings[booking_id].provider_id)]
            /\ rating_before' = provider_profiles[bookings[booking_id].provider_id].avg_rating
            /\ resp' = Response("create_review", 201, "", bookings[booking_id].status)
    /\ UNCHANGED <<bookings, provider_availability, reqs, now, categories, profiles>>

\* Variant: delete_review leaves avg_rating as it was
delete_review_no_recompute(review_id) ==
    /\ IF review_id \notin 1..Len(reviews) \/ reviews[review_id] = Deleted
       THEN /\ resp' = Response("delete_review", 404, "Review not found", "")
            /\ UNCHANGED <<reviews, provider_profiles>>
       ELSE /\ reviews' = [reviews EXCEPT ![review_id] = Deleted]
            /\ UNCHANGED provider_profiles
            /\ resp' = Response("delete_review", 204, "", "")
    /\ UNCHANGED <<bookings, provider_availability, reqs, now, categories, profiles, rating_before>>

\* DELETE /admins/reviews/{review_id}
delete_review(review_id) ==
    /\ IF review_id \notin 1..Len(reviews) \/ reviews[review_id] = Deleted
       THEN /\ resp' = Response("delete_review", 404, "Review not found", "")
            /\ UNCHANGED <<reviews, provider_profiles>>
       ELSE /\ reviews' = [reviews EXCEPT ![review_id] = Deleted]
            /\ provider_profiles' =
                    [provider_profiles EXCEPT ![reviews[review_id].provider_id].avg_rating =
                        COALESCE(AVG(reviews', reviews[review_id].provider_id), Zero)]
            /\ resp' = Response("delete_review", 204, "", "")
    /\ UNCHANGED <<bookings, provider_availability, reqs, now, categories, profiles, rating_before>>

\* The booking lifecycle and the reviews, requests served one at a time, from
\* one completed booking that its customer reviewed.
CompletedRow(customer, provider_id, scheduled_for) ==
    [PendingRow(customer, provider_id, scheduled_for) EXCEPT !.status = "completed"]

InitReview ==
    /\ \E p \in Providers, r \in Ratings :
        /\ bookings = <<CompletedRow(1, p, 0)>>
        /\ reviews = <<ReviewRow(1, 1, p, r)>>
        /\ provider_profiles =
              [[q \in Providers |-> ProfileRow(q, TRUE)] EXCEPT ![p].avg_rating = <<r, 1>>]
    /\ provider_availability =
          {[provider_id |-> p, day_of_week |-> db_day(0),
            start_time |-> 0, end_time |-> TimesPerDay - 1] : p \in Providers}
    /\ resp = NoResponse
    /\ reqs = NoRequests
    /\ now = BeforeInstants
    /\ categories = CategoryIds
    /\ profiles = RoleDirectory
    /\ rating_before = Zero

NextReview ==
    \/ Next
    \/ \E c \in Customers, b \in BookingIds, r \in Ratings : create_review(c, b, r)
    \/ \E id \in ReviewIds : delete_review(id)

SpecReview == InitReview /\ [][NextReview]_vars

\* Reviews only, requests served one at a time: MaxReviews completed bookings of
\* customer 1, each with any provider, none reviewed yet.
InitRating ==
    /\ \E provider \in [1..MaxReviews -> Providers] :
          bookings = [b \in 1..MaxReviews |-> CompletedRow(1, provider[b], b - 1)]
    /\ provider_profiles = [p \in Providers |-> ProfileRow(p, TRUE)]
    /\ provider_availability =
          {[provider_id |-> p, day_of_week |-> d,
            start_time |-> 0, end_time |-> TimesPerDay - 1] : p \in Providers, d \in 0..6}
    /\ reviews = NoReviews
    /\ resp = NoResponse
    /\ reqs = NoRequests
    /\ now = BeforeInstants
    /\ categories = CategoryIds
    /\ profiles = RoleDirectory
    /\ rating_before = Zero

NextRating ==
    \/ \E c \in Customers, b \in 1..MaxReviews, r \in Ratings : create_review(c, b, r)
    \/ \E id \in ReviewIds : delete_review(id)

SpecRating == InitRating /\ [][NextRating]_vars

\* ------------------------------------- handlers as database round trips
\* A request in flight: the handler's position (the round trip it makes next)
\* and the locals it has read so far.  A request enters with its first round
\* trip; a request that raises or returns leaves the bag, its response is sent.
Request(op, pc, caller, provider_id, booking_id, scheduled_for, total_price) ==
    [op |-> op, pc |-> pc, caller |-> caller, provider_id |-> provider_id,
     booking_id |-> booking_id, scheduled_for |-> scheduled_for,
     total_price |-> total_price]

\* Number of requests of handler op in flight
InFlight(op) ==
    BagCardinality([r \in {x \in BagToSet(reqs) : x.op = op} |-> CopiesIn(r, reqs)])

enter(r) == reqs' = reqs (+) SetToBag({r})
leave(r) == reqs' = reqs (-) SetToBag({r})
goto(r, pc) == reqs' = (reqs (-) SetToBag({r})) (+) SetToBag({[r EXCEPT !.pc = pc]})

\* create_booking: supabase.table("provider_profiles").select("*").eq("id", ...)
create_booking_provider_result(customer, provider_id, scheduled_for) ==
    /\ BagCardinality(reqs) < MaxRequests
    /\ Len(bookings) + InFlight("create") < MaxBookings
    /\ IF provider_not_found(provider_profiles, provider_id)
       THEN UNCHANGED reqs
       ELSE enter(Request("create", "conflict_check", customer, provider_id, 0,
                          scheduled_for, provider_profiles[provider_id].base_price))
    /\ UNCHANGED <<bookings, provider_profiles, provider_availability, resp, reviews, now, categories, profiles,
                   rating_before>>

\* create_booking: conn.fetchrow(SELECT id FROM bookings ...)
create_booking_conflict_check(r) ==
    /\ r.op = "create" /\ r.pc = "conflict_check"
    /\ IF conflict_check(bookings, r.provider_id, r.scheduled_for)
       THEN leave(r)
       ELSE goto(r, "availability_check")
    /\ UNCHANGED <<bookings, provider_profiles, provider_availability, resp, reviews, now, categories, profiles,
                   rating_before>>

\* create_booking: conn.fetchrow(SELECT * FROM provider_availability ...)
create_booking_availability_check(r) ==
    /\ r.op = "create" /\ r.pc = "availability_check"
    /\ IF ~availability_check(provider_availability, r.provider_id, r.scheduled_for)
       THEN leave(r)
       ELSE goto(r, "insert")
    /\ UNCHANGED <<bookings, provider_profiles, provider_availability, resp, reviews, now, categories, profiles,
                   rating_before>>

\* create_booking: supabase.table("bookings").insert({...})
create_booking_insert(r) ==
    /\ r.op = "create" /\ r.pc = "insert"
    /\ bookings' = Append(bookings,
            [customer_id |-> r.caller,
             provider_id |-> r.provider_id,
             status |-> "pending",
             scheduled_for |-> r.scheduled_for,
             total_price |-> total_price_column(r.total_price)])
    /\ leave(r)
    /\ UNCHANGED <<provider_profiles, provider_availability, resp, reviews, now, categories, profiles, rating_before>>

\* cancel_booking: select the booking, check the status
cancel_booking_result(customer, booking_id) ==
    /\ BagCardinality(reqs) < MaxRequests
    /\ IF /\ booking_result(bookings, booking_id, "customer_id", customer)
          /\ bookings[booking_id].status \in {"pending", "confirmed"}
       THEN enter(Request("cancel", "update", customer, 0, booking_id, 0, 0))
       ELSE UNCHANGED reqs
    /\ UNCHANGED <<bookings, provider_profiles, provider_availability, resp, reviews, now, categories, profiles,
                   rating_before>>

\* update({"status": <status>}).eq("id", booking_id): no condition on the row's status
update_status(r, status) ==
    /\ r.pc = "update"
    /\ bookings' = [bookings EXCEPT ![r.booking_id].status = status]
    /\ leave(r)
    /\ UNCHANGED <<provider_profiles, provider_availability, resp, reviews, now, categories, profiles, rating_before>>

cancel_booking_update(r) == r.op = "cancel" /\ update_status(r, "cancelled")

\* accept_booking: select the booking, check the status
accept_booking_result(provider_id, booking_id) ==
    /\ BagCardinality(reqs) < MaxRequests
    /\ IF /\ booking_result(bookings, booking_id, "provider_id", provider_id)
          /\ bookings[booking_id].status = "pending"
       THEN enter(Request("accept", "conflict", provider_id, provider_id, booking_id,
                          bookings[booking_id].scheduled_for, 0))
       ELSE UNCHANGED reqs
    /\ UNCHANGED <<bookings, provider_profiles, provider_availability, resp, reviews, now, categories, profiles,
                   rating_before>>

\* accept_booking: the conflict query, at the instant read with the booking
accept_booking_conflict(r) ==
    /\ r.op = "accept" /\ r.pc = "conflict"
    /\ IF conflict(bookings, r.provider_id, r.booking_id, r.scheduled_for)
       THEN leave(r)
       ELSE goto(r, "update")
    /\ UNCHANGED <<bookings, provider_profiles, provider_availability, resp, reviews, now, categories, profiles,
                   rating_before>>

accept_booking_update(r) == r.op = "accept" /\ update_status(r, "confirmed")

\* reject_booking: select the booking, check the status
reject_booking_result(provider_id, booking_id) ==
    /\ BagCardinality(reqs) < MaxRequests
    /\ IF /\ booking_result(bookings, booking_id, "provider_id", provider_id)
          /\ bookings[booking_id].status = "pending"
       THEN enter(Request("reject", "update", provider_id, provider_id, booking_id, 0, 0))
       ELSE UNCHANGED reqs
    /\ UNCHANGED <<bookings, provider_profiles, provider_availability, resp, reviews, now, categories, profiles,
                   rating_before>>

reject_booking_update(r) == r.op = "reject" /\ update_status(r, "cancelled")

\* reschedule_booking: select the booking, check the status
reschedule_booking_result(provider_id, booking_id, new_scheduled_for) ==
    /\ BagCardinality(reqs) < MaxRequests
    /\ IF /\ booking_result(bookings, booking_id, "provider_id", provider_id)
          /\ bookings[booking_id].status \in {"pending", "confirmed", "rescheduled"}
       THEN enter(Request("reschedule", "conflict", provider_id, provider_id, booking_id,
                          new_scheduled_for, 0))
       ELSE UNCHANGED reqs
    /\ UNCHANGED <<bookings, provider_profiles, provider_availability, resp, reviews, now, categories, profiles,
                   rating_before>>

\* reschedule_booking: the conflict query at the new instant
reschedule_booking_conflict(r) ==
    /\ r.op = "reschedule" /\ r.pc = "conflict"
    /\ IF conflict(bookings, r.provider_id, r.booking_id, r.scheduled_for)
       THEN leave(r)
       ELSE goto(r, "availability_check")
    /\ UNCHANGED <<bookings, provider_profiles, provider_availability, resp, reviews, now, categories, profiles,
                   rating_before>>

\* reschedule_booking: the availability query at the new instant
reschedule_booking_availability_check(r) ==
    /\ r.op = "reschedule" /\ r.pc = "availability_check"
    /\ IF ~availability_check(provider_availability, r.provider_id, r.scheduled_for)
       THEN leave(r)
       ELSE goto(r, "update")
    /\ UNCHANGED <<bookings, provider_profiles, provider_availability, resp, reviews, now, categories, profiles,
                   rating_before>>

\* reschedule_booking: update({"status": "rescheduled", "scheduled_for": ...}).eq("id", booking_id)
reschedule_booking_update(r) ==
    /\ r.op = "reschedule" /\ r.pc = "update"
    /\ bookings' = [bookings EXCEPT ![r.booking_id].status = "rescheduled",
                                    ![r.booking_id].scheduled_for = r.scheduled_for]
    /\ leave(r)
    /\ UNCHANGED <<provider_profiles, provider_availability, resp, reviews, now, categories, profiles, rating_before>>

\* complete_booking: select the booking, check the status
complete_booking_result(provider_id, booking_id) ==
    /\ BagCardinality(reqs) < MaxRequests
    /\ IF /\ booking_result(bookings, booking_id, "provider_id", provider_id)
          /\ bookings[booking_id].status \in {"confirmed", "rescheduled"}
       THEN enter(Request("complete", "update", provider_id, provider_id, booking_id, 0, 0))
       ELSE UNCHANGED reqs
    /\ UNCHANGED <<bookings, provider_profiles, provider_availability, resp, reviews, now, categories, profiles,
                   rating_before>>

complete_booking_update(r) == r.op = "complete" /\ update_status(r, "completed")

\* Every provider verified and working on the first day, all day.
InitConc ==
    /\ bookings = <<>>
    /\ provider_profiles = [p \in Providers |-> ProfileRow(p, TRUE)]
    /\ provider_availability =
          {[provider_id |-> p, day_of_week |-> db_day(0),
            start_time |-> 0, end_time |-> TimesPerDay - 1] : p \in Providers}
    /\ resp = NoResponse
    /\ reqs = NoRequests
    /\ reviews = NoReviews
    /\ now = BeforeInstants
    /\ categories = CategoryIds
    /\ profiles = RoleDirectory
    /\ rating_before = Zero

NextConc ==
    \/ \E c \in Customers, p \in ProviderIds, t \in Instants :
          create_booking_provider_result(c, p, t)
    \/ \E c \in Customers, b \in BookingIds : cancel_booking_result(c, b)
    \/ \E p \in Providers, b \in BookingIds : accept_booking_result(p, b)
    \/ \E p \in Providers, b \in BookingIds : reject_booking_result(p, b)
    \/ \E p \in Providers, b \in BookingIds, t \in Instants :
          reschedule_booking_result(p, b, t)
    \/ \E p \in Providers, b \in BookingIds : complete_booking_result(p, b)
    \/ \E r \in BagToSet(reqs) : create_booking_conflict_check(r)
    \/ \E r \in BagToSet(reqs) : create_booking_availability_check(r)
    \/ \E r \in BagToSet(reqs) : create_booking_insert(r)
    \/ \E r \in BagToSet(reqs) : cancel_booking_update(r)
    \/ \E r \in BagToSet(reqs) : accept_booking_conflict(r)
    \/ \E r \in BagToSet(reqs) : accept_booking_update(r)
    \/ \E r \in BagToSet(reqs) : reject_booking_update(r)
    \/ \E r \in BagToSet(reqs) : reschedule_booking_conflict(r)
    \/ \E r \in BagToSet(reqs) : reschedule_booking_availability_check(r)
    \/ \E r \in BagToSet(reqs) : reschedule_booking_update(r)
    \/ \E r \in BagToSet(reqs) : complete_booking_update(r)

SpecConc == InitConc /\ [][NextConc]_vars

\* ------------------------------------ review handlers as database round trips
ReviewRequest(op, pc, caller, provider_id, booking_id, review_id, rating) ==
    [op |-> op, pc |-> pc, caller |-> caller, provider_id |-> provider_id,
     booking_id |-> booking_id, review_id |-> review_id, rating |-> rating]

\* create_review: SELECT id, customer_id, provider_id, status FROM bookings WHERE id = $1
\* and the three checks on the row
create_review_booking(customer, booking_id, rating) ==
    /\ BagCardinality(reqs) < MaxRequests
    /\ Len(reviews) + InFlight("create_review") < MaxReviews
    /\ IF /\ booking_id \in 1..Len(bookings)
          /\ bookings[booking_id].customer_id = customer
          /\ bookings[booking_id].status = "completed"
       THEN enter(ReviewRequest("create_review", "existing_review", customer,
                                bookings[booking_id].provider_id, booking_id, 0, rating))
       ELSE UNCHANGED reqs
    /\ UNCHANGED <<bookings, provider_profiles, provider_availability, resp, reviews, now, categories, profiles,
                   rating_before>>

\* create_review: SELECT id FROM reviews WHERE booking_id = $1
create_review_existing_review(r) ==
    /\ r.op = "create_review" /\ r.pc = "existing_review"
    /\ IF existing_review(reviews, r.booking_id)
       THEN leave(r)
       ELSE goto(r, "insert")
    /\ UNCHANGED <<bookings, provider_profiles, provider_availability, resp, reviews, now, categories, profiles,
                   rating_before>>

\* create_review: supabase.table("reviews").insert({...})
create_review_insert(r) ==
    /\ r.op = "create_review" /\ r.pc = "insert"
    /\ reviews' = Append(reviews, ReviewRow(r.booking_id, r.caller, r.provider_id, r.rating))
    /\ goto(r, "update_avg_rating")
    /\ UNCHANGED <<bookings, provider_profiles, provider_availability, resp, now, categories, profiles,
                   rating_before>>

\* create_review: UPDATE provider_profiles SET avg_rating = (SELECT AVG(rating)::float ...)
create_review_update_avg_rating(r) ==
    /\ r.op = "create_review" /\ r.pc = "update_avg_rating"
    /\ provider_profiles' =
            [provider_profiles EXCEPT ![r.provider_id].avg_rating = AVG(reviews, r.provider_id)]
    /\ leave(r)
    /\ UNCHANGED <<bookings, provider_availability, resp, reviews, now, categories, profiles, rating_before>>

\* delete_review: select("*").eq("id", review_id).single()
delete_review_existing(review_id) ==
    /\ BagCardinality(reqs) < MaxRequests
    /\ IF review_id \in 1..Len(reviews) /\ reviews[review_id] /= Deleted
       THEN enter(ReviewRequest("delete_review", "delete", 0,
                                reviews[review_id].provider_id, 0, review_id, 0))
       ELSE UNCHANGED reqs
    /\ UNCHANGED <<bookings, provider_profiles, provider_availability, resp, reviews, now, categories, profiles,
                   rating_before>>

\* delete_review: supabase.table("reviews").delete().eq("id", review_id)
delete_review_delete(r) ==
    /\ r.op = "delete_review" /\ r.pc = "delete"
    /\ reviews' = [reviews EXCEPT ![r.review_id] = Deleted]
    /\ goto(r, "update_avg_rating")
    /\ UNCHANGED <<bookings, provider_profiles, provider_availability, resp, now, categories, profiles,
                   rating_before>>

\* delete_review: UPDATE provider_profiles SET avg_rating = (SELECT COALESCE(AVG(...), 0) ...)
delete_review_update_avg_rating(r) ==
    /\ r.op = "delete_review" /\ r.pc = "update_avg_rating"
    /\ provider_profiles' =
            [provider_profiles EXCEPT ![r.provider_id].avg_rating =
                COALESCE(AVG(reviews, r.provider_id), Zero)]
    /\ leave(r)
    /\ UNCHANGED <<bookings, provider_availability, resp, reviews, now, categories, profiles, rating_before>>

\* MaxBookings completed bookings of customer 1, each with any provider, none
\* reviewed yet.
InitReviewConc ==
    /\ \E provider \in [BookingIds -> Providers] :
          bookings = [b \in BookingIds |-> CompletedRow(1, provider[b], b - 1)]
    /\ provider_profiles = [p \in Providers |-> ProfileRow(p, TRUE)]
    /\ provider_availability =
          {[provider_id |-> p, day_of_week |-> d,
            start_time |-> 0, end_time |-> TimesPerDay - 1] : p \in Providers, d \in 0..6}
    /\ reviews = NoReviews
    /\ resp = NoResponse
    /\ reqs = NoRequests
    /\ now = BeforeInstants
    /\ categories = CategoryIds
    /\ profiles = RoleDirectory
    /\ rating_before = Zero

NextReviewConc ==
    \/ \E c \in Customers, b \in BookingIds, r \in Ratings : create_review_booking(c, b, r)
    \/ \E id \in ReviewIds : delete_review_existing(id)
    \/ \E r \in BagToSet(reqs) : create_review_existing_review(r)
    \/ \E r \in BagToSet(reqs) : create_review_insert(r)
    \/ \E r \in BagToSet(reqs) : create_review_update_avg_rating(r)
    \/ \E r \in BagToSet(reqs) : delete_review_delete(r)
    \/ \E r \in BagToSet(reqs) : delete_review_update_avg_rating(r)

SpecReviewConc == InitReviewConc /\ [][NextReviewConc]_vars

\* ------------------------------- create_review with a failing recomputation
\* The insert and the recomputation are two statements on two connections and
\* no transaction spans them.  conn.execute(UPDATE provider_profiles ...) can
\* raise (connection lost, pool exhausted): `except Exception` answers 500.

\* Variant: the handler removes the inserted review when the recomputation raises
create_review_execute_raises_rolled_back(customer, booking_id, rating) ==
    /\ booking_id \in 1..Len(bookings)
    /\ bookings[booking_id].customer_id = customer
    /\ bookings[booking_id].status = "completed"
    /\ ~existing_review(reviews, booking_id)
    /\ Len(reviews) < MaxReviews
    /\ reviews' = Append(reviews, Deleted)
    /\ resp' = Response("create_review", 500, "Error creating review",
                        bookings[booking_id].status)
    /\ UNCHANGED <<bookings, provider_profiles, provider_availability, reqs, now, categories, profiles,
                   rating_before>>

\* POST /customers/reviews when the UPDATE of avg_rating raises after the insert
create_review_execute_raises(customer, booking_id, rating) ==
    /\ booking_id \in 1..Len(bookings)
    /\ bookings[booking_id].customer_id = customer
    /\ bookings[booking_id].status = "completed"
    /\ ~existing_review(reviews, booking_id)
    /\ Len(reviews) < MaxReviews
    /\ reviews' = Append(reviews,
            ReviewRow(booking_id, customer, bookings[booking_id].provider_id, rating))
    /\ resp' = Response("create_review", 500, "Error creating review",
                        bookings[booking_id].status)
    /\ UNCHANGED <<bookings, provider_profiles, provider_availability, reqs, now, categories, profiles,
                   rating_before>>

NextRecompute ==
    \/ NextRating
    \/ \E c \in Customers, b \in 1..MaxReviews, r \in Ratings :
          create_review_execute_raises(c, b, r)

\* Reviews of MaxReviews completed bookings, the recomputation may fail
SpecRecompute == InitRating /\ [][NextRecompute]_vars

\* ------------------------------------------------------ availability slots
\* Times of day a slot request may carry, the days it may name and the ids the
\* store hands out.  A row of provider_availability that is addressed by id
\* carries the id; the booking handlers above never read it.
SlotTimes == 0..(TimesPerDay + 1)
SlotDays == {db_day(0), db_day(TimesPerDay)}
SlotIds == 1..MaxSlots

SlotRow(id, provider_id, day_of_week, start_time, end_time) ==
    [id |-> id, provider_id |-> provider_id, day_of_week |-> day_of_week,
     start_time |-> start_time, end_time |-> end_time]

\* The id of an inserted row: one that no row has and no request in flight holds
unused_ids(av, held) == {i \in SlotIds : i \notin held /\ \A e \in av : e.id /= i}
new_id(av, held) == CHOOSE i \in unused_ids(av, held) : \A j \in unused_ids(av, held) : i <= j

\* create_availability: SELECT id FROM provider_availability WHERE provider_id = $1
\* AND day_of_week = $2 AND (...)
create_overlapping(av, provider_id, day_of_week, start_time, end_time) ==
    \E e \in av :
        /\ e.provider_id = provider_id
        /\ e.day_of_week = day_of_week
        /\ overlapping(e, start_time, end_time)

\* update_availability: the same query with AND id != $3
update_overlapping(av, provider_id, day_of_week, availability_id, new_start, new_end) ==
    \E e \in av :
        /\ e.provider_id = provider_id
        /\ e.day_of_week = day_of_week
        /\ e.id /= availability_id
        /\ overlapping(e, new_start, new_end)

\* select("*").eq("id", availability_id).eq("provider_id", ...).single()
existing_slot(av, availability_id, provider_id) ==
    {e \in av : e.id = availability_id /\ e.provider_id = provider_id}

\* Variant: a conflicting create replaces the slots it overlaps
create_availability_replaces(provider_id, day_of_week, start_time, end_time) ==
    /\ IF create_overlapping(provider_availability, provider_id, day_of_week,
                             start_time, end_time)
       THEN /\ resp' = Response("create_availability", 409,
                                "Availability slot overlaps with existing slot", "")
            /\ provider_availability' =
                  {e \in provider_availability :
                      ~(/\ e.provider_id = provider_id
                        /\ e.day_of_week = day_of_week
                        /\ overlapping(e, start_time, end_time))}
       ELSE /\ unused_ids(provider_availability, {}) /= {}
            /\ provider_availability' = provider_availability \cup
                  {SlotRow(new_id(provider_availability, {}), provider_id, day_of_week,
                           start_time, end_time)}
            /\ resp' = Response("create_availability", 201, "", "")
    /\ UNCHANGED <<bookings, provider_profiles, reqs, reviews, now, categories, profiles, rating_before>>

\* POST /providers/availability, the body validated
create_availability(provider_id, day_of_week, start_time, end_time) ==
    /\ IF create_overlapping(provider_availability, provider_id, day_of_week,
                             start_time, end_time)
       THEN /\ resp' = Response("create_availability", 409,
                                "Availability slot overlaps with existing slot", "")
            /\ UNCHANGED provider_availability
       ELSE /\ unused_ids(provider_availability, {}) /= {}
            /\ provider_availability' = provider_availability \cup
                  {SlotRow(new_id(provider_availability, {}), provider_id, day_of_week,
                           start_time, end_time)}
            /\ resp' = Response("create_availability", 201, "", "")
    /\ UNCHANGED <<bookings, provider_profiles, reqs, reviews, now, categories, profiles, rating_before>>

\* AvailabilityCreate.end_time_after_start
end_time_after_start(v, start_time) == IF v <= start_time THEN "ValueError" ELSE "ok"

\* POST /providers/availability: the validator of AvailabilityCreate, then the handler
post_availability(provider_id, day_of_week, start_time, end_time) ==
    IF end_time_after_start(end_time, start_time) /= "ok"
    THEN /\ resp' = Response("create_availability", 422,
                             "End time must be after start time", "")
         /\ UNCHANGED <<bookings, provider_profiles, provider_availability, reqs, reviews,
                        now, categories, profiles, rating_before>>
    ELSE create_availability(provider_id, day_of_week, start_time, end_time)

\* availability_update.start_time or time.fromisoformat(existing_slot["start_time"]):
\* the stored times come back as strings, and a time object is never false
or_existing(value, existing) == IF value /= None THEN value ELSE existing

\* PUT /providers/availability/{availability_id}; AvailabilityUpdate has no
\* validator, an absent field is None
update_availability(provider_id, availability_id, start_time, end_time) ==
    /\ IF existing_slot(provider_availability, availability_id, provider_id) = {}
       THEN /\ resp' = Response("update_availability", 404, "Availability slot not found", "")
            /\ UNCHANGED provider_availability
       ELSE LET existing == CHOOSE e \in existing_slot(provider_availability,
                                                       availability_id, provider_id) : TRUE
                new_start == or_existing(start_time, existing.start_time)
                new_end == or_existing(end_time, existing.end_time)
            IN  IF update_overlapping(provider_availability, provider_id,
                                      existing.day_of_week, availability_id,
                                      new_start, new_end)
                THEN /\ resp' = Response("update_availability", 409,
                            "Updated availability slot overlaps with existing slot", "")
                     /\ UNCHANGED provider_availability
                ELSE IF start_time = None /\ end_time = None
                THEN /\ resp' = Response("update_availability", 400,
                                         "No fields to update", "")
                     /\ UNCHANGED provider_availability
                ELSE /\ provider_availability' =
                          {IF e.id = availability_id
                           THEN [e EXCEPT !.start_time = new_start, !.end_time = new_end]
                           ELSE e : e \in provider_availability}
                     /\ resp' = Response("update_availability", 200, "", "")
    /\ UNCHANGED <<bookings, provider_profiles, reqs, reviews, now, categories, profiles, rating_before>>

\* DELETE /providers/availability/{availability_id}
delete_availability(provider_id, availability_id) ==
    /\ IF existing_slot(provider_availability, availability_id, provider_id) = {}
       THEN /\ resp' = Response("delete_availability", 404, "Availability slot not found", "")
            /\ UNCHANGED provider_availability
       ELSE /\ provider_availability' =
                  {e \in provider_availability : e.id /= availability_id}
            /\ resp' = Response("delete_availability", 204, "", "")
    /\ UNCHANGED <<bookings, provider_profiles, reqs, reviews, now, categories, profiles, rating_before>>

\* The providers' slots, requests served one at a time, from an empty table
InitAvailability ==
    /\ bookings = <<>>
    /\ provider_profiles = [p \in Providers |-> ProfileRow(p, TRUE)]
    /\ provider_availability = {}
    /\ resp = NoResponse
    /\ reqs = NoRequests
    /\ reviews = NoReviews
    /\ now = BeforeInstants
    /\ categories = CategoryIds
    /\ profiles = RoleDirectory
    /\ rating_before = Zero

NextAvailability ==
    \/ \E p \in Providers, d \in SlotDays, s \in SlotTimes, e \in SlotTimes :
          post_availability(p, d, s, e)
    \/ \E p \in Providers, id \in SlotIds, s \in SlotTimes \cup {None},
          e \in SlotTimes \cup {None} : update_availability(p, id, s, e)
    \/ \E p \in Providers, id \in SlotIds : delete_availability(p, id)

SpecAvailability == InitAvailability /\ [][NextAvailability]_vars

\* ------------------------------ availability handlers as database round trips
\* Requests of one provider for one day, the case of two tabs or a retry.  The
\* overlap query and the write that follows it are separate statements.
SlotProviders == {p \in Providers : \A q \in Providers : p <= q}
SlotDay == db_day(0)
RaceTimes == 0..TimesPerDay

AvailabilityRequest(op, pc, provider_id, availability_id, day_of_week, start_time, end_time, new_start, new_end) ==
    [op |-> op, pc |-> pc, provider_id |-> provider_id,
     availability_id |-> availability_id, day_of_week |-> day_of_week,
     start_time |-> start_time, end_time |-> end_time,
     new_start |-> new_start, new_end |-> new_end]

\* Ids that requests in flight hold
held_ids == {r.availability_id : r \in BagToSet(reqs)}

\* create_availability: the validated body, then conn.fetchrow(SELECT id FROM
\* provider_availability ...)
create_availability_overlapping(provider_id, day_of_week, start_time, end_time) ==
    /\ BagCardinality(reqs) < MaxRequests
    /\ end_time_after_start(end_time, start_time) = "ok"
    /\ IF create_overlapping(provider_availability, provider_id, day_of_week,
                             start_time, end_time)
       THEN UNCHANGED reqs
       ELSE enter(AvailabilityRequest("create_availability", "insert", provider_id, 0,
                                      day_of_week, start_time, end_time,
                                      start_time, end_time))
    /\ UNCHANGED <<bookings, provider_profiles, provider_availability, resp, reviews, now, categories, profiles,
                   rating_before>>

\* create_availability: supabase.table("provider_availability").insert({...})
create_availability_insert(r) ==
    /\ r.op = "create_availability" /\ r.pc = "insert"
    /\ unused_ids(provider_availability, held_ids) /= {}
    /\ provider_availability' = provider_availability \cup
          {SlotRow(new_id(provider_availability, held_ids), r.provider_id, r.day_of_week,
                   r.start_time, r.end_time)}
    /\ leave(r)
    /\ UNCHANGED <<bookings, provider_profiles, resp, reviews, now, categories, profiles, rating_before>>

\* update_availability: select("*").eq("id", ...).eq("provider_id", ...).single(),
\* then new_start and new_end from the body and the row read
update_availability_existing(provider_id, availability_id, start_time, end_time) ==
    /\ BagCardinality(reqs) < MaxRequests
    /\ IF existing_slot(provider_availability, availability_id, provider_id) = {}
       THEN UNCHANGED reqs
       ELSE LET existing == CHOOSE e \in existing_slot(provider_availability,
                                                       availability_id, provider_id) : TRUE
            IN  enter(AvailabilityRequest("update_availability", "overlapping", provider_id,
                        availability_id, existing.day_of_week, start_time, end_time,
                        or_existing(start_time, existing.start_time),
                        or_existing(end_time, existing.end_time)))
    /\ UNCHANGED <<bookings, provider_profiles, provider_availability, resp, reviews, now, categories, profiles,
                   rating_before>>

\* update_availability: conn.fetchrow(SELECT id ... AND id != $3 ...), then update_data
update_availability_overlapping(r) ==
    /\ r.op = "update_availability" /\ r.pc = "overlapping"
    /\ IF update_overlapping(provider_availability, r.provider_id, r.day_of_week,
                             r.availability_id, r.new_start, r.new_end)
       THEN leave(r)
       ELSE IF r.start_time = None /\ r.end_time = None
       THEN leave(r)
       ELSE goto(r, "update")
    /\ UNCHANGED <<bookings, provider_profiles, provider_availability, resp, reviews, now, categories, profiles,
                   rating_before>>

\* update_availability: update(update_data).eq("id", availability_id) writes the
\* fields the body supplied, to the row as it is now (to no row if it is gone)
update_availability_update(r) ==
    /\ r.op = "update_availability" /\ r.pc = "update"
    /\ provider_availability' =
          {IF e.id = r.availability_id
           THEN [e EXCEPT !.start_time = or_existing(r.start_time, e.start_time),
                          !.end_time = or_existing(r.end_time, e.end_time)]
           ELSE e : e \in provider_availability}
    /\ leave(r)
    /\ UNCHANGED <<bookings, provider_profiles, resp, reviews, now, categories, profiles, rating_before>>

\* delete_availability: select("*").eq("id", ...).eq("provider_id", ...).single()
delete_availability_existing(provider_id, availability_id) ==
    /\ BagCardinality(reqs) < MaxRequests
    /\ IF existing_slot(provider_availability, availability_id, provider_id) = {}
       THEN UNCHANGED reqs
       ELSE enter(AvailabilityRequest("delete_availability", "delete", provider_id,
                                      availability_id, 0, 0, 0, 0, 0))
    /\ UNCHANGED <<bookings, provider_profiles, provider_availability, resp, reviews, now, categories, profiles,
                   rating_before>>

\* delete_availability: delete().eq("id", availability_id)
delete_availability_delete(r) ==
    /\ r.op = "delete_availability" /\ r.pc = "delete"
    /\ provider_availability' =
          {e \in provider_availability : e.id /= r.availability_id}
    /\ leave(r)
    /\ UNCHANGED <<bookings, provider_profiles, resp, reviews, now, categories, profiles, rating_before>>

NextAvailabilityConc ==
    \/ \E p \in SlotProviders, s \in RaceTimes, e \in RaceTimes :
          create_availability_overlapping(p, SlotDay, s, e)
    \/ \E p \in SlotProviders, id \in SlotIds, s \in RaceTimes \cup {None},
          e \in RaceTimes \cup {None} : update_availability_existing(p, id, s, e)
    \/ \E p \in SlotProviders, id \in SlotIds : delete_availability_existing(p, id)
    \/ \E r \in BagToSet(reqs) : create_availability_insert(r)
    \/ \E r \in BagToSet(reqs) : update_availability_overlapping(r)
    \/ \E r \in BagToSet(reqs) : update_availability_update(r)
    \/ \E r \in BagToSet(reqs) : delete_availability_delete(r)

SpecAvailabilityConc == InitAvailability /\ [][NextAvailabilityConc]_vars

\* ------------------------------------------------------- provider search
\* GET /customers/providers/search.  A location is a point of a line, the
\* geography distance of two points is their difference; NULL in the integer
\* columns location, category_id and base_price is None, and so is a query
\* parameter that was not supplied.
MaxDistance == 2

Points == 1..MaxDistance
Origins == {0}
Radii == 1..MaxDistance
SearchRatings == {Zero, <<9, 2>>}
MinRatings == {None, 4}
Prices == {p - 1 : p \in Providers}
MinPrices == {None, 1}
MaxPrices == {None, 0}
Limits == 1..NumProviders
Offsets == 0..(NumProviders - 1)

SearchRows ==
    [is_verified : BOOLEAN, location : Points \cup {None},
     category_id : CategoryIds \cup {None}, avg_rating : SearchRatings,
     base_price : Prices]

\* ST_Distance(pp.location::geography, ST_MakePoint($1, $2)::geography) / 1000.0
ST_Distance(location, origin) ==
    IF location >= origin THEN location - origin ELSE origin - location

\* ST_DWithin(pp.location::geography, ST_MakePoint($1, $2)::geography, $3 * 1000)
ST_DWithin(location, origin, radius_km) == ST_Distance(location, origin) <= radius_km

\* `if category_id:`
category_filter(category_id) == category_id /= None /\ category_id /= 0

\* pp.avg_rating >= $n, false for NULL
rating_at_least(avg_rating, min_rating) ==
    avg_rating /= NULL /\ avg_rating[1] >= min_rating * avg_rating[2]

\* The WHERE clause with the filters that were added to it
where(pp, origin, radius_km, category_id, min_rating, min_price, max_price) ==
    /\ pp.is_verified = TRUE
    /\ pp.location /= None
    /\ ST_DWithin(pp.location, origin, radius_km)
    /\ category_filter(category_id) => pp.category_id = category_id
    /\ min_rating /= None => rating_at_least(pp.avg_rating, min_rating)
    /\ min_price /= None => (pp.base_price /= None /\ pp.base_price >= min_price)
    /\ max_price /= None => (pp.base_price /= None /\ pp.base_price <= max_price)

\* ORDER BY distance_km: every order of the selected rows that sorts them by
\* distance (rows at the same distance come in any order)
order_by_distance(ids, origin) ==
    {rows \in [1..Cardinality(ids) -> ids] :
        /\ \A i, j \in 1..Cardinality(ids) : i /= j => rows[i] /= rows[j]
        /\ \A i, j \in 1..Cardinality(ids) :
              i < j => ST_Distance(provider_profiles[rows[i]].location, origin)
                        <= ST_Distance(provider_profiles[rows[j]].location, origin)}

\* LIMIT $n OFFSET $m
limit_offset(rows, limit, offset) ==
    [i \in 1..(IF Len(rows) - offset < limit
               THEN (IF Len(rows) > offset THEN Len(rows) - offset ELSE 0)
               ELSE limit) |-> rows[offset + i]]

SearchRequest(origin, radius_km, category_id, min_rating, min_price, max_price, limit, offset) ==
    [op |-> "search_providers", origin |-> origin, radius_km |-> radius_km,
     category_id |-> category_id, min_rating |-> min_rating, min_price |-> min_price,
     max_price |-> max_price, limit |-> limit, offset |-> offset]

\* The query parameters of one request
SearchRequests ==
    {SearchRequest(origin, radius_km, category_id, min_rating, min_price, max_price,
                   limit, offset) :
        origin \in Origins, radius_km \in Radii, category_id \in {None, 0} \cup CategoryIds,
        min_rating \in MinRatings, min_price \in MinPrices, max_price \in MaxPrices,
        limit \in Limits, offset \in Offsets}

\* search_providers: the answer (the providers' ids in the order returned) is
\* kept with the request it answers
search_providers(r) ==
    /\ r.op = "search_providers"
    /\ \E rows \in order_by_distance(
              {p \in DOMAIN provider_profiles :
                  where(provider_profiles[p], r.origin, r.radius_km, r.category_id,
                        r.min_rating, r.min_price, r.max_price)}, r.origin) :
          resp' = [op |-> "search_providers", status_code |-> 200, detail |-> "",
                   current_status |-> "", request |-> r,
                   providers |-> limit_offset(rows, r.limit, r.offset)]
    /\ leave(r)
    /\ UNCHANGED <<bookings, provider_profiles, provider_availability, reviews, now, categories, profiles,
                   rating_before>>

\* One search request over any table of provider profiles
InitSearch ==
    /\ bookings = <<>>
    /\ provider_profiles \in [Providers -> SearchRows]
    /\ provider_availability = {}
    /\ resp = NoResponse
    /\ \E r \in SearchRequests : reqs = SetToBag({r})
    /\ reviews = NoReviews
    /\ now = BeforeInstants
    /\ categories = CategoryIds
    /\ profiles = RoleDirectory
    /\ rating_before = Zero

NextSearch == \E r \in BagToSet(reqs) : search_providers(r)

SpecSearch == InitSearch /\ [][NextSearch]_vars

\* ---------------------------------------------------------- access control
\* core/security.py.  A credential is a bearer token: None when the request has
\* no Authorization header, 0 a token that supabase.auth.get_user rejects,
\* otherwise the id of the user it belongs to.  The role directory is the
\* table profiles.
Credentials == {None} \cup (0..NoProfile)

\* provider_profiles.select("*").eq("user_id", current_user["id"]): the rows' ids
provider_profile_result(u) == {p \in DOMAIN provider_profiles : NumCustomers + p = u}

current_user(status_code, detail, id, provider_id) ==
    [status_code |-> status_code, detail |-> detail, id |-> id, provider_id |-> provider_id]

get_current_user(credentials) ==
    IF credentials = None
    THEN current_user(401, "Authentication required", 0, 0)
    ELSE IF credentials \notin 1..NoProfile
    THEN current_user(401, "Invalid authentication credentials", 0, 0)
    ELSE current_user(200, "", credentials, 0)

\* The lookup of the role that the three dependencies share
role_required(credentials, role, detail) ==
    LET user == get_current_user(credentials)
    IN  IF user.status_code /= 200 THEN user
        ELSE IF user.id \notin DOMAIN profiles
        THEN current_user(404, "User profile not found", 0, 0)
        ELSE IF profiles[user.id].role /= role
        THEN current_user(403, detail, 0, 0)
        ELSE user

get_current_customer(credentials) ==
    role_required(credentials, "customer", "Customer access required")

get_current_provider(credentials) ==
    LET user == role_required(credentials, "provider", "Provider access required")
    IN  IF user.status_code /= 200 THEN user
        ELSE IF provider_profile_result(user.id) = {}
        THEN current_user(404, "Provider profile not found", 0, 0)
        ELSE [user EXCEPT !.provider_id = CHOOSE p \in provider_profile_result(user.id) : TRUE]

get_current_admin(credentials) ==
    role_required(credentials, "admin", "Admin access required")

\* A dependency raised: the handler does not run
raise(op, user) ==
    /\ resp' = Response(op, user.status_code, user.detail, "")
    /\ UNCHANGED <<bookings, provider_profiles, provider_availability, reqs, reviews, now, categories, profiles,
                   rating_before>>

\* The routes: FastAPI resolves the Depends(...) of the signature, then calls
\* the handler.  search_providers declares no dependency on the caller.
search_providers_route(credentials, r) == search_providers(r)

create_booking_route(credentials, provider_id, scheduled_for) ==
    IF get_current_customer(credentials).status_code /= 200
    THEN raise("create", get_current_customer(credentials))
    ELSE create_booking(get_current_customer(credentials).id, provider_id, scheduled_for)

cancel_booking_route(credentials, booking_id) ==
    IF get_current_customer(credentials).status_code /= 200
    THEN raise("cancel", get_current_customer(credentials))
    ELSE cancel_booking(get_current_customer(credentials).id, booking_id)

create_review_route(credentials, booking_id, rating) ==
    IF get_current_customer(credentials).status_code /= 200
    THEN raise("create_review", get_current_customer(credentials))
    ELSE create_review(get_current_customer(credentials).id, booking_id, rating)

accept_booking_route(credentials, booking_id) ==
    IF get_current_provider(credentials).status_code /= 200
    THEN raise("accept", get_current_provider(credentials))
    ELSE accept_booking(get_current_provider(credentials).provider_id, booking_id)

reject_booking_route(credentials, booking_id) ==
    IF get_current_provider(credentials).status_code /= 200
    THEN raise("reject", get_current_provider(credentials))
    ELSE reject_booking(get_current_provider(credentials).provider_id, booking_id)

reschedule_booking_route(credentials, booking_id, new_scheduled_for) ==
    IF get_current_provider(credentials).status_code /= 200
    THEN raise("reschedule", get_current_provider(credentials))
    ELSE reschedule_booking(get_current_provider(credentials).provider_id, booking_id,
                            new_scheduled_for)

complete_booking_route(credentials, booking_id) ==
    IF get_current_provider(credentials).status_code /= 200
    THEN raise("complete", get_current_provider(credentials))
    ELSE complete_booking(get_current_provider(credentials).provider_id, booking_id)

create_availability_route(credentials, day_of_week, start_time, end_time) ==
    IF get_current_provider(credentials).status_code /= 200
    THEN raise("create_availability", get_current_provider(credentials))
    ELSE post_availability(get_current_provider(credentials).provider_id, day_of_week,
                           start_time, end_time)

update_availability_route(credentials, availability_id, start_time, end_time) ==
    IF get_current_provider(credentials).status_code /= 200
    THEN raise("update_availability", get_current_provider(credentials))
    ELSE update_availability(get_current_provider(credentials).provider_id, availability_id,
                             start_time, end_time)

delete_availability_route(credentials, availability_id) ==
    IF get_current_provider(credentials).status_code /= 200
    THEN raise("delete_availability", get_current_provider(credentials))
    ELSE delete_availability(get_current_provider(credentials).provider_id, availability_id)

delete_review_route(credentials, review_id) ==
    IF get_current_admin(credentials).status_code /= 200
    THEN raise("delete_review", get_current_admin(credentials))
    ELSE delete_review(review_id)

\* The requests of the access scenario: one caller of each kind (no header, a
\* bad token, the first customer, the first provider's user, the admin, the
\* provider without profile, the user without role); bookings of the first
\* provider at the first instant, its slot of the first day, reviews with the
\* best rating, searches without filters.
AccessCredentials ==
    {c \in Credentials :
        /\ c \in Customers => \A d \in Customers : c <= d
        /\ (c - NumCustomers) \in Providers => \A q \in Providers : c <= NumCustomers + q}
AccessProviders == {p \in Providers : \A q \in Providers : p <= q}
AccessInstants == {v \in Instants : \A w \in Instants : v <= w}
AccessRatings == {r \in Ratings : \A q \in Ratings : q <= r}
AccessSearches ==
    {r \in SearchRequests :
        /\ r.category_id = None /\ r.min_rating = None
        /\ r.min_price = None /\ r.max_price = None
        /\ r.offset = 0 /\ r.limit = NumProviders}

\* Every provider verified and located; the first provider works on the first
\* day, slot 1 is its slot.
InitAccess ==
    /\ bookings = <<>>
    /\ provider_profiles =
          [p \in Providers |->
              [is_verified |-> TRUE, base_price |-> p - 1, avg_rating |-> Zero,
               location |-> p, category_id |-> None]]
    /\ provider_availability =
          {SlotRow(p, p, SlotDay, 0, TimesPerDay - 1) : p \in AccessProviders}
    /\ resp = NoResponse
    /\ reqs = NoRequests
    /\ reviews = NoReviews
    /\ now = BeforeInstants
    /\ categories = CategoryIds
    /\ profiles = RoleDirectory
    /\ rating_before = Zero

NextAccess ==
    \/ \E c \in AccessCredentials, r \in AccessSearches : search_providers_route(c, r)
    \/ \E c \in AccessCredentials, p \in AccessProviders, t \in AccessInstants :
          create_booking_route(c, p, t)
    \/ \E c \in AccessCredentials, b \in BookingIds : cancel_booking_route(c, b)
    \/ \E c \in AccessCredentials, b \in BookingIds, r \in AccessRatings :
          create_review_route(c, b, r)
    \/ \E c \in AccessCredentials, b \in BookingIds : accept_booking_route(c, b)
    \/ \E c \in AccessCredentials, b \in BookingIds : reject_booking_route(c, b)
    \/ \E c \in AccessCredentials, b \in BookingIds, t \in AccessInstants :
          reschedule_booking_route(c, b, t)
    \/ \E c \in AccessCredentials, b \in BookingIds : complete_booking_route(c, b)
    \/ \E c \in AccessCredentials, s \in Times, e \in Times :
          create_availability_route(c, SlotDay, s, e)
    \/ \E c \in AccessCredentials, id \in SlotIds, s \in {None, 0},
          e \in {None, TimesPerDay - 1} : update_availability_route(c, id, s, e)
    \/ \E c \in AccessCredentials, id \in SlotIds : delete_availability_route(c, id)
    \/ \E c \in AccessCredentials, id \in ReviewIds : delete_review_route(c, id)

SpecAccess == InitAccess /\ [][NextAccess]_vars

\* ------------------ create_review interleaved with the booking transitions
\* One pending booking of the first customer with the first provider; the
\* transitions and create_review run as their round trips, two at a time.
InitReviewRace ==
    /\ bookings = <<PendingRow(1, 1, 0)>>
    /\ provider_profiles = [p \in Providers |-> ProfileRow(p, TRUE)]
    /\ provider_availability =
          {[provider_id |-> p, day_of_week |-> db_day(0),
            start_time |-> 0, end_time |-> TimesPerDay - 1] : p \in Providers}
    /\ resp = NoResponse
    /\ reqs = NoRequests
    /\ reviews = NoReviews
    /\ now = BeforeInstants
    /\ categories = CategoryIds
    /\ profiles = RoleDirectory
    /\ rating_before = Zero

NextReviewRace ==
    \/ \E c \in Customers, b \in BookingIds : cancel_booking_result(c, b)
    \/ \E p \in Providers, b \in BookingIds : accept_booking_result(p, b)
    \/ \E p \in Providers, b \in BookingIds : reject_booking_result(p, b)
    \/ \E p \in Providers, b \in BookingIds, t \in Instants :
          reschedule_booking_result(p, b, t)
    \/ \E p \in Providers, b \in BookingIds : complete_booking_result(p, b)
    \/ \E c \in Customers, b \in BookingIds, r \in AccessRatings :
          create_review_booking(c, b, r)
    \/ \E r \in BagToSet(reqs) : cancel_booking_update(r)
    \/ \E r \in BagToSet(reqs) : accept_booking_conflict(r)
    \/ \E r \in BagToSet(reqs) : accept_booking_update(r)
    \/ \E r \in BagToSet(reqs) : reject_booking_update(r)
    \/ \E r \in BagToSet(reqs) : reschedule_booking_conflict(r)
    \/ \E r \in BagToSet(reqs) : reschedule_booking_availability_check(r)
    \/ \E r \in BagToSet(reqs) : reschedule_booking_update(r)
    \/ \E r \in BagToSet(reqs) : complete_booking_update(r)
    \/ \E r \in BagToSet(reqs) : create_review_existing_review(r)
    \/ \E r \in BagToSet(reqs) : create_review_insert(r)
    \/ \E r \in BagToSet(reqs) : create_review_update_avg_rating(r)

SpecReviewRace == InitReviewRace /\ [][NextReviewRace]_vars

\* ------------------------------------------------- a provider's own profile
\* PUT /providers/profile.  The rows of provider_profiles carry category_id
\* here; bio and location are written the same way and read by no handler of
\* this module.  A field that the request leaves out is None.
\* The requests of SpecProfile: one provider asks for a price that no row has yet
ProfileProviders == {p \in Providers : \A q \in Providers : q <= p}
ProfilePrices == {None, NumProviders}
ProfileCategories == {None} \cup CategoryIds

CategoryProfileRow(p, is_verified, category_id) ==
    [is_verified |-> is_verified, base_price |-> p - 1, avg_rating |-> Zero,
     category_id |-> category_id]

\* update_data: the fields of the request that are not None
update_data(row, category_id, base_price) ==
    [row EXCEPT !.category_id = IF category_id /= None THEN category_id ELSE @,
                !.base_price = IF base_price /= None THEN base_price ELSE @]

\* Variant: the bookings of the provider are repriced with the new base price
update_my_profile_reprices(provider_id, category_id, base_price) ==
    /\ provider_profiles' =
          [provider_profiles EXCEPT ![provider_id] = update_data(@, category_id, base_price)]
    /\ bookings' =
          [b \in 1..Len(bookings) |->
              IF bookings[b].provider_id = provider_id /\ base_price /= None
              THEN [bookings[b] EXCEPT !.total_price = total_price_column(base_price)]
              ELSE bookings[b]]
    /\ resp' = Response("update_my_profile", 200, "", "")
    /\ UNCHANGED <<provider_availability, reqs, reviews, now, categories, profiles, rating_before>>

\* Variant: the update writes a whole row, with the average of a new profile
update_my_profile_whole_row(provider_id, category_id, base_price) ==
    /\ provider_profiles' =
          [provider_profiles EXCEPT ![provider_id] =
              [update_data(@, category_id, base_price) EXCEPT !.avg_rating = Zero]]
    /\ resp' = Response("update_my_profile", 200, "", "")
    /\ UNCHANGED <<bookings, provider_availability, reqs, reviews, now, categories, profiles, rating_before>>

update_my_profile(provider_id, category_id, base_price) ==
    /\ provider_profiles' =
          [provider_profiles EXCEPT ![provider_id] = update_data(@, category_id, base_price)]
    /\ resp' = Response("update_my_profile", 200, "", "")
    /\ UNCHANGED <<bookings, provider_availability, reqs, reviews, now, categories, profiles, rating_before>>

\* Every provider verified, without a category, working on the first day, all day.
InitProfile ==
    /\ bookings = <<>>
    /\ provider_profiles = [p \in Providers |-> CategoryProfileRow(p, TRUE, None)]
    /\ provider_availability =
          {[provider_id |-> p, day_of_week |-> db_day(0),
            start_time |-> 0, end_time |-> TimesPerDay - 1] : p \in Providers}
    /\ resp = NoResponse
    /\ reqs = NoRequests
    /\ reviews = NoReviews
    /\ now = BeforeInstants
    /\ categories = CategoryIds
    /\ profiles = RoleDirectory
    /\ rating_before = Zero

NextProfile ==
    \/ Next
    \/ \E p \in ProfileProviders, c \in ProfileCategories, price \in ProfilePrices :
          update_my_profile(p, c, price)

SpecProfile == InitProfile /\ [][NextProfile]_vars

\* ------------------------------------------- every writing handler together
\* Requests served one at a time: the booking lifecycle, the reviews, the
\* provider's profile and slots and the admin's verification, for the first
\* customer and the provider of ProfileProviders, from empty tables.
BackendCustomers == {c \in Customers : \A d \in Customers : c <= d}
BackendInstants == {v \in Instants : db_day(v) = SlotDay}
BackendRatings == {r \in Ratings : (\A q \in Ratings : r <= q) \/ (\A q \in Ratings : q <= r)}

InitBackend ==
    /\ bookings = <<>>
    /\ provider_profiles = [p \in Providers |-> CategoryProfileRow(p, TRUE, None)]
    /\ provider_availability = {}
    /\ resp = NoResponse
    /\ reqs = NoRequests
    /\ reviews = NoReviews
    /\ now = BeforeInstants
    /\ categories = CategoryIds
    /\ profiles = RoleDirectory
    /\ rating_before = Zero

NextBackend ==
    \/ \E c \in BackendCustomers, p \in ProfileProviders, t \in BackendInstants :
          create_booking(c, p, t)
    \/ \E c \in BackendCustomers, b \in BookingIds : cancel_booking(c, b)
    \/ \E p \in ProfileProviders, b \in BookingIds : accept_booking(p, b)
    \/ \E p \in ProfileProviders, b \in BookingIds : reject_booking(p, b)
    \/ \E p \in ProfileProviders, b \in BookingIds, t \in BackendInstants :
          reschedule_booking(p, b, t)
    \/ \E p \in ProfileProviders, b \in BookingIds : complete_booking(p, b)
    \/ \E c \in BackendCustomers, b \in BookingIds, r \in BackendRatings :
          create_review(c, b, r)
    \/ \E id \in ReviewIds : delete_review(id)
    \/ \E p \in ProfileProviders, c \in ProfileCategories, price \in ProfilePrices :
          update_my_profile(p, c, price)
    \/ \E p \in ProfileProviders, is_verified \in BOOLEAN : verify_provider(p, is_verified)
    \/ \E p \in ProfileProviders, s \in Times, e \in Times :
          post_availability(p, SlotDay, s, e)
    \/ \E p \in ProfileProviders, id \in SlotIds, s \in {None, 0},
          e \in {None, TimesPerDay - 1} : update_availability(p, id, s, e)
    \/ \E p \in ProfileProviders, id \in SlotIds : delete_availability(p, id)

SpecBackend == InitBackend /\ [][NextBackend]_vars

\* ------------------------------ categories against the providers' profiles
\* DELETE /admins/categories/{category_id} as its three round trips, two
\* requests in flight; the profile update writes provider_profiles with one
\* statement.  A provider sets a category that the table holds at that time.
CategoryRequest(op, pc, category_id) == [op |-> op, pc |-> pc, category_id |-> category_id]

\* delete_category: supabase.table("categories").select("*").eq("id", category_id).single()
delete_category_existing(category_id) ==
    /\ BagCardinality(reqs) < MaxRequests
    /\ IF category_id \notin categories
       THEN /\ resp' = Response("delete_category", 404, "Category not found", "")
            /\ UNCHANGED reqs
       ELSE /\ enter(CategoryRequest("delete_category", "providers_using", category_id))
            /\ UNCHANGED resp
    /\ UNCHANGED <<bookings, provider_profiles, provider_availability, reviews, now, categories, profiles, rating_before>>

\* delete_category: SELECT COUNT(*) FROM provider_profiles WHERE category_id = $1
delete_category_providers_using(r) ==
    /\ r.op = "delete_category" /\ r.pc = "providers_using"
    /\ IF Cardinality({p \in DOMAIN provider_profiles :
                          provider_profiles[p].category_id = r.category_id}) > 0
       THEN /\ resp' = Response("delete_category", 409, "Cannot delete category", "")
            /\ leave(r)
       ELSE /\ goto(r, "delete")
            /\ UNCHANGED resp
    /\ UNCHANGED <<bookings, provider_profiles, provider_availability, reviews, now, categories, profiles, rating_before>>

\* delete_category: supabase.table("categories").delete().eq("id", category_id)
delete_category_delete(r) ==
    /\ r.op = "delete_category" /\ r.pc = "delete"
    /\ categories' = categories \ {r.category_id}
    /\ resp' = Response("delete_category", 204, "", "")
    /\ leave(r)
    /\ UNCHANGED <<bookings, provider_profiles, provider_availability, reviews, now, profiles, rating_before>>

NextCategory ==
    \/ \E c \in CategoryIds \cup {NumCategories + 1} : delete_category_existing(c)
    \/ \E r \in BagToSet(reqs) : delete_category_providers_using(r)
    \/ \E r \in BagToSet(reqs) : delete_category_delete(r)
    \/ \E p \in Providers, c \in {None} \cup categories, price \in ProfilePrices :
          update_my_profile(p, c, price)

SpecCategory == InitProfile /\ [][NextCategory]_vars

\* ------------------------------------------------- bookings through a week
\* create_booking and reschedule_booking at the instants of a whole week and
\* the Monday after it; the provider of ProfileProviders works on one day of
\* the week, all day.
WeekInstants == 0..(7 * TimesPerDay)

InitWeek ==
    /\ bookings = <<>>
    /\ provider_profiles = [p \in Providers |-> ProfileRow(p, TRUE)]
    /\ \E d \in 0..6 :
          provider_availability =
              {[provider_id |-> p, day_of_week |-> d,
                start_time |-> 0, end_time |-> TimesPerDay - 1] : p \in ProfileProviders}
    /\ resp = NoResponse
    /\ reqs = NoRequests
    /\ reviews = NoReviews
    /\ now = BeforeInstants
    /\ categories = CategoryIds
    /\ profiles = RoleDirectory
    /\ rating_before = Zero

NextWeek ==
    \/ \E c \in BackendCustomers, p \in ProfileProviders, t \in WeekInstants :
          create_booking(c, p, t)
    \/ \E p \in ProfileProviders, b \in BookingIds, t \in WeekInstants :
          reschedule_booking(p, b, t)

SpecWeek == InitWeek /\ [][NextWeek]_vars

\* --------------------------------- create, accept and reschedule interleaved
\* The round trips of create_booking, accept_booking and reschedule_booking
\* alone, two requests in flight, from the tables of InitConc.
NextConfirm ==
    \/ \E c \in Customers, p \in ProviderIds, t \in Instants :
          create_booking_provider_result(c, p, t)
    \/ \E p \in Providers, b \in BookingIds : accept_booking_result(p, b)
    \/ \E p \in Providers, b \in BookingIds, t \in Instants :
          reschedule_booking_result(p, b, t)
    \/ \E r \in BagToSet(reqs) : create_booking_conflict_check(r)
    \/ \E r \in BagToSet(reqs) : create_booking_availability_check(r)
    \/ \E r \in BagToSet(reqs) : create_booking_insert(r)
    \/ \E r \in BagToSet(reqs) : accept_booking_conflict(r)
    \/ \E r \in BagToSet(reqs) : accept_booking_update(r)
    \/ \E r \in BagToSet(reqs) : reschedule_booking_conflict(r)
    \/ \E r \in BagToSet(reqs) : reschedule_booking_availability_check(r)
    \/ \E r \in BagToSet(reqs) : reschedule_booking_update(r)

SpecConfirm == InitConc /\ [][NextConfirm]_vars

\* ------------------------------------------------------------- user roles
\* api/admins/routes.py, update_user_role.  The route depends on
\* get_current_admin, whose select on profiles is one round trip; the handler's
\* update of profiles is another, and nothing ties the two together.
UserRole == {"customer", "provider", "admin"}

RoleRequest(op, pc, caller, user_id, new_role) == [op |-> op, pc |-> pc, caller |-> caller, user_id |-> user_id, new_role |-> new_role]

\* Depends(get_current_admin): the caller's row of profiles is read here
update_user_role_admin(credentials, user_id, new_role) ==
    /\ BagCardinality(reqs) < MaxRequests
    /\ LET user == get_current_admin(credentials)
       IN  IF user.status_code /= 200
           THEN raise("update_user_role", user)
           ELSE /\ enter(RoleRequest("update_user_role", "update", user.id, user_id, new_role))
                /\ UNCHANGED <<bookings, provider_profiles, provider_availability, resp, reviews, now, categories, profiles, rating_before>>

\* The handler: the role's name, the self-change guard, then
\* supabase.table("profiles").update({"role": new_role}).eq("id", user_id)
update_user_role_update(r) ==
    /\ r.op = "update_user_role" /\ r.pc = "update"
    /\ leave(r)
    /\ IF r.new_role \notin UserRole
       THEN /\ resp' = Response("update_user_role", 400, "Invalid role", "")
            /\ UNCHANGED profiles
       ELSE IF r.user_id = r.caller
       THEN /\ resp' = Response("update_user_role", 400, "Cannot change your own role", "")
            /\ UNCHANGED profiles
       ELSE IF r.user_id \notin DOMAIN profiles
       THEN /\ resp' = Response("update_user_role", 404, "User not found", "")
            /\ UNCHANGED profiles
       ELSE /\ profiles' = [profiles EXCEPT ![r.user_id].role = r.new_role]
            /\ resp' = Response("update_user_role", 200, "", r.new_role)
    /\ UNCHANGED <<bookings, provider_profiles, provider_availability, reviews, now, categories, rating_before>>

\* The callers are the admin, the first customer and a request without a token;
\* the targets are the two users and the user without a row in profiles; a
\* role's name may be one the handler refuses.
RoleCallers == {c \in Credentials : c = None \/ c = Admin \/ (c \in Customers /\ \A d \in Customers : c <= d)}
RoleTargets == (RoleCallers \ {None}) \cup {NoProfile}
RoleNames == {"admin", "customer", "superuser"}

NextRoles ==
    \/ \E c \in RoleCallers, u \in RoleTargets, role \in RoleNames : update_user_role_admin(c, u, role)
    \/ \E r \in BagToSet(reqs) : update_user_role_update(r)

SpecRoles == InitProfile /\ [][NextRoles]_vars

\* ------------------------------------------------------------------ claims

Rows == 1..Len(bookings)

\* Booking b exists and its owner column holds the caller.
Owns(b, column, caller) == b \in Rows /\ bookings[b][column] = caller

\* Another booking of provider p holds instant t with a non-terminal status.
OtherActiveAt(b, p, t) ==
    \E j \in Rows :
        /\ j /= b
        /\ bookings[j].provider_id = p
        /\ bookings[j].scheduled_for = t
        /\ bookings[j].status \in {"pending", "confirmed", "rescheduled"}

\* Instant t, taken as Sunday = 0 weekday and time of day, lies inside a slot of p
\* (both ends of the slot included).
InsideSlot(p, t) ==
    \E s \in provider_availability :
        /\ s.provider_id = p
        /\ s.day_of_week = ((t \div TimesPerDay) + 1) % 7
        /\ s.start_time <= t % TimesPerDay
        /\ t % TimesPerDay <= s.end_time

\* C1: under any interleaving of concurrent create, accept and reschedule
\* requests, each provider has at most one booking with status pending,
\* confirmed or rescheduled at each instant.
C1_NoDoubleBookingConcurrent ==
    \A p \in Providers, t \in Instants :
        Cardinality({b \in Rows :
            /\ bookings[b].provider_id = p
            /\ bookings[b].scheduled_for = t
            /\ bookings[b].status \in {"pending", "confirmed", "rescheduled"}}) <= 1

\* C2: with requests served one at a time, no provider ever has two bookings
\* with status pending, confirmed or rescheduled at the same scheduled instant.
C2_NoDoubleBookingSequential ==
    \A i, j \in Rows :
        (/\ i /= j
         /\ bookings[i].provider_id = bookings[j].provider_id
         /\ bookings[i].scheduled_for = bookings[j].scheduled_for
         /\ bookings[i].status \in {"pending", "confirmed", "rescheduled"})
            => bookings[j].status \in {"completed", "cancelled"}

\* C2 witness: an instant freed by a cancelled booking was booked again, and a
\* further create for that instant has just been refused with Conflict.
C2_Witness ==
    /\ resp.op = "create" /\ resp.status_code = 409
    /\ \E i, j \in Rows :
        /\ i /= j
        /\ bookings[i].provider_id = bookings[j].provider_id
        /\ bookings[i].scheduled_for = bookings[j].scheduled_for
        /\ bookings[i].status = "cancelled"
        /\ bookings[j].status = "pending"

\* C3: once a booking is completed or cancelled, no step of any request, under
\* any interleaving, changes its status again.
C3_TerminalStatusesFinal ==
    [][\A b \in Rows :
        bookings[b].status \in {"completed", "cancelled"} =>
            bookings'[b].status = bookings[b].status]_vars

\* C4: accept by the booking's provider succeeds only from pending and only when
\* no other booking of the provider at that instant is pending, confirmed or
\* rescheduled; on success the status is confirmed; from any other status it
\* fails with InvalidTransition (400, current status reported), booking unchanged.
C4_AcceptContract ==
    [][\A p \in Providers, b \in BookingIds :
        (Owns(b, "provider_id", p) /\ accept_booking(p, b)) =>
            /\ resp'.status_code = 200 =>
                /\ bookings[b].status = "pending"
                /\ ~OtherActiveAt(b, p, bookings[b].scheduled_for)
                /\ bookings' = [bookings EXCEPT ![b].status = "confirmed"]
            /\ bookings[b].status \in {"confirmed", "rescheduled", "completed", "cancelled"} =>
                /\ resp'.status_code = 400
                /\ resp'.detail = "Can only accept pending bookings"
                /\ resp'.current_status = bookings[b].status
                /\ bookings' = bookings]_vars

\* C4 witness: an accept was refused because another booking holds the instant,
\* while the other pending booking of that instant is still there.
C4_Witness ==
    /\ resp.op = "accept" /\ resp.status_code = 409
    /\ \E i, j \in Rows :
        /\ i /= j
        /\ bookings[i].provider_id = bookings[j].provider_id
        /\ bookings[i].scheduled_for = bookings[j].scheduled_for
        /\ bookings[i].status = "pending"
        /\ bookings[j].status \in {"pending", "confirmed", "rescheduled"}

C6_CancelContract ==
    [][\A c \in Customers, b \in BookingIds :
        (Owns(b, "customer_id", c) /\ cancel_booking(c, b)) =>
            IF bookings[b].status \in {"pending", "confirmed"}
            THEN /\ resp'.status_code = 200
                 /\ bookings' = [bookings EXCEPT ![b].status = "cancelled"]
            ELSE /\ resp'.status_code = 400
                 /\ resp'.detail = "Cannot cancel booking with status"
                 /\ resp'.current_status = bookings[b].status
                 /\ bookings' = bookings]_vars

\* C6 witness: a cancel of a rescheduled booking was refused.
C6_Witness ==
    /\ resp.op = "cancel" /\ resp.status_code = 400
    /\ resp.current_status = "rescheduled"
    /\ \E b \in Rows : bookings[b].status = "rescheduled"

\* C7: complete by the booking's provider sets completed from confirmed or
\* rescheduled; from pending, completed or cancelled it fails with
\* InvalidTransition and leaves the booking unchanged.
C7_CompleteContract ==
    [][\A p \in Providers, b \in BookingIds :
        (Owns(b, "provider_id", p) /\ complete_booking(p, b)) =>
            IF bookings[b].status \in {"confirmed", "rescheduled"}
            THEN /\ resp'.status_code = 200
                 /\ bookings' = [bookings EXCEPT ![b].status = "completed"]
            ELSE /\ resp'.status_code = 400
                 /\ resp'.detail = "Can only complete confirmed or rescheduled bookings"
                 /\ resp'.current_status = bookings[b].status
                 /\ bookings' = bookings]_vars

\* C7 witness: a complete of a pending booking was refused.
C7_Witness ==
    /\ resp.op = "complete" /\ resp.status_code = 400
    /\ resp.current_status = "pending"
    /\ \E b \in Rows : bookings[b].status = "pending"

\* C8: reject by the booking's provider sets cancelled from pending, whatever
\* else is booked at that instant and whatever the provider's slots are; from
\* any other status it fails with InvalidTransition, booking unchanged.
C8_RejectContract ==
    [][\A p \in Providers, b \in BookingIds :
        (Owns(b, "provider_id", p) /\ reject_booking(p, b)) =>
            IF bookings[b].status = "pending"
            THEN /\ resp'.status_code = 200
                 /\ bookings' = [bookings EXCEPT ![b].status = "cancelled"]
            ELSE /\ resp'.status_code = 400
                 /\ resp'.detail = "Can only reject pending bookings"
                 /\ resp'.current_status = bookings[b].status
                 /\ bookings' = bookings]_vars

\* C8 witness: a pending booking was rejected while another non-terminal booking
\* held its instant and the instant lay outside every slot of the provider.
C8_Witness ==
    /\ resp.op = "reject" /\ resp.status_code = 200
    /\ \E i, j \in Rows :
        /\ i /= j
        /\ bookings[i].provider_id = bookings[j].provider_id
        /\ bookings[i].scheduled_for = bookings[j].scheduled_for
        /\ bookings[i].status = "cancelled"
        /\ bookings[j].status = "pending"
        /\ ~InsideSlot(bookings[i].provider_id, bookings[i].scheduled_for)

CanMoveTo(b, status) == ENABLED (Next /\ bookings'[b].status = status)

\* C10 as stated: for a rescheduled booking there is an operation that sets it
\* to completed and an operation that sets it to cancelled.
C10_RescheduledToCompletedAndCancelled ==
    \A b \in Rows :
        bookings[b].status = "rescheduled" =>
            CanMoveTo(b, "completed") /\ CanMoveTo(b, "cancelled")

\* C10 amended: a rescheduled booking can be set to completed, and no operation
\* sets it to cancelled: its status stays rescheduled or becomes completed.
C10_RescheduledOnlyToCompleted ==
    /\ [](\A b \in Rows : bookings[b].status = "rescheduled" => CanMoveTo(b, "completed"))
    /\ [][\A b \in Rows :
            bookings[b].status = "rescheduled" =>
                bookings'[b].status \in {"rescheduled", "completed"}]_vars

\* C10 witness: a rescheduled booking was completed.
C10_Witness ==
    /\ resp.op = "complete" /\ resp.status_code = 200
    /\ resp.current_status = "rescheduled"
    /\ \E b \in Rows : bookings[b].status = "completed"

\* Provider p has a row in provider_profiles and is verified.
Verified(p) == p \in DOMAIN provider_profiles /\ provider_profiles[p].is_verified

\* C11 as stated: create for provider p at instant t fails with Conflict and
\* creates no booking exactly when p has a pending, confirmed or rescheduled
\* booking at exactly t.
C11_ConflictExactlyWhenActiveBooking ==
    [][\A c \in Customers, p \in ProviderIds, t \in Instants :
        create_booking(c, p, t) =>
            ((resp'.status_code = 409 /\ bookings' = bookings) <=> OtherActiveAt(0, p, t))]_vars

\* C11 amended: for a verified provider p, create at instant t fails with
\* Conflict (409) and creates no booking exactly when p has a pending, confirmed
\* or rescheduled booking at exactly t, and no create is answered Conflict
\* otherwise; completed or cancelled bookings of p at t, bookings of p at other
\* instants and bookings of other providers at t do not block it: with none of
\* the former the request succeeds whenever t lies inside a slot.
C11_CreateConflictContract ==
    [][\A c \in Customers, p \in ProviderIds, t \in Instants :
        create_booking(c, p, t) =>
            /\ resp'.status_code = 409 =>
                /\ OtherActiveAt(0, p, t)
                /\ bookings' = bookings
            /\ (Verified(p) /\ OtherActiveAt(0, p, t)) =>
                /\ resp'.status_code = 409
                /\ resp'.detail = "Provider is already booked at this time"
                /\ bookings' = bookings
            /\ (Verified(p) /\ ~OtherActiveAt(0, p, t) /\ InsideSlot(p, t)) =>
                /\ resp'.status_code = 201
                /\ Len(bookings') = Len(bookings) + 1]_vars

\* C11 witness: a create succeeded for an instant at which the same provider
\* has a completed booking.
C11_Witness ==
    /\ resp.op = "create" /\ resp.status_code = 201
    /\ \E i \in Rows :
        /\ i /= Len(bookings)
        /\ bookings[i].provider_id = bookings[Len(bookings)].provider_id
        /\ bookings[i].scheduled_for = bookings[Len(bookings)].scheduled_for
        /\ bookings[i].status = "completed"
        /\ bookings[Len(bookings)].status = "pending"

C13_CreateVerifiedProviderContract ==
    [][\A c \in Customers, p \in ProviderIds, t \in Instants :
        create_booking(c, p, t) =>
            /\ resp'.status_code = 201 =>
                /\ Verified(p)
                /\ bookings'[Len(bookings')].provider_id = p
            /\ ~Verified(p) =>
                /\ resp'.status_code = 404
                /\ resp'.detail = "Provider not found or not verified"
                /\ bookings' = bookings]_vars

\* C13 witness: a create was refused with NotFound while an unverified provider
\* has a slot and a booking from the time it was verified.
C13_Witness ==
    /\ resp.op = "create" /\ resp.status_code = 404
    /\ \E b \in Rows :
        /\ ~provider_profiles[bookings[b].provider_id].is_verified
        /\ \E s \in provider_availability : s.provider_id = bookings[b].provider_id

\* C14: on every successful create the new booking has status pending and a
\* total price equal to the provider's base price, for every base price >= 0.
C14_CreateSnapshotsBasePrice ==
    [][\A c \in Customers, p \in ProviderIds, t \in Instants :
        (create_booking(c, p, t) /\ resp'.status_code = 201) =>
            /\ bookings'[Len(bookings')].status = "pending"
            /\ bookings'[Len(bookings')].total_price = provider_profiles[p].base_price]_vars

\* C15: create and reschedule accept only an instant strictly later than the
\* current time; a request whose instant is equal to or earlier than now is
\* rejected with InvalidInput (422) and no booking is created or changed.
C15_FutureInstantsOnly ==
    [][/\ \A c \in Customers, p \in ProviderIds, v \in Datetimes :
            post_bookings(c, p, v) =>
                /\ resp'.status_code = 201 => v.t > now
                /\ v.t <= now => (resp'.status_code = 422 /\ bookings' = bookings)
       /\ \A p \in Providers, b \in BookingIds, v \in Datetimes :
            put_bookings_reschedule(p, b, v) =>
                /\ resp'.status_code = 200 => v.t > now
                /\ v.t <= now => (resp'.status_code = 422 /\ bookings' = bookings)]_vars

\* The stored reviews of provider p (ids), and how many of them give rating r.
ReviewsOf(p) == {i \in 1..Len(reviews) : reviews[i].provider_id = p}
RatedAs(p, r) == Cardinality({i \in ReviewsOf(p) : reviews[i].rating = r})
RatingTotal(p) ==
    RatedAs(p, 1) + 2 * RatedAs(p, 2) + 3 * RatedAs(p, 3) + 4 * RatedAs(p, 4)
        + 5 * RatedAs(p, 5)

\* The stored average of provider p is the fraction total / count in lowest
\* terms, and 0 when p has no review.
StoredAverageIsMean(p) ==
    IF ReviewsOf(p) = {}
    THEN provider_profiles[p].avg_rating = <<0, 1>>
    ELSE /\ Len(provider_profiles[p].avg_rating) = 2
         /\ provider_profiles[p].avg_rating[1] * Cardinality(ReviewsOf(p))
                = RatingTotal(p) * provider_profiles[p].avg_rating[2]
         /\ \A d \in 2..5 :
                ~(/\ provider_profiles[p].avg_rating[1] % d = 0
                  /\ provider_profiles[p].avg_rating[2] % d = 0)

\* C17: create review succeeds only if the booking exists, the caller is its
\* customer and its status is completed; for a booking that is absent (404),
\* of another customer (403) or pending, confirmed, rescheduled or cancelled
\* (400) it fails, no review is stored and no average rating changes.
C17_CreateReviewGuards ==
    [][\A c \in Customers, b \in BookingIds, r \in Ratings :
        create_review(c, b, r) =>
            /\ resp'.status_code = 201 =>
                /\ Owns(b, "customer_id", c)
                /\ bookings[b].status = "completed"
            /\ ~(Owns(b, "customer_id", c) /\ bookings[b].status = "completed") =>
                /\ resp'.status_code =
                        IF b \notin Rows THEN 404
                        ELSE IF bookings[b].customer_id /= c THEN 403 ELSE 400
                /\ reviews' = reviews
                /\ provider_profiles' = provider_profiles]_vars

\* C17 witness: a review of a rescheduled booking by its customer was refused
\* while the provider has a review of another booking.
C17_Witness ==
    /\ resp.op = "create_review" /\ resp.status_code = 400
    /\ resp.current_status = "rescheduled"
    /\ \E b \in Rows :
        /\ bookings[b].status = "rescheduled"
        /\ ReviewsOf(bookings[b].provider_id) /= {}

\* C18: with requests served one at a time, the stored average rating of every
\* provider equals (sum of ratings) / (number of reviews) over the reviews
\* stored for that provider, and 0 when it has none, after every create review
\* and delete review; ratings 5, 3, 4 give 4 and, the 3 deleted, 5 and 4 give 9/2.
C18_AverageIsMean ==
    \A p \in Providers :
        /\ StoredAverageIsMean(p)
        /\ (RatedAs(p, 5) = 1 /\ RatedAs(p, 3) = 1 /\ RatedAs(p, 4) = 1
                /\ Cardinality(ReviewsOf(p)) = 3)
            => provider_profiles[p].avg_rating = <<4, 1>>
        /\ (RatedAs(p, 5) = 1 /\ RatedAs(p, 4) = 1 /\ Cardinality(ReviewsOf(p)) = 2)
            => provider_profiles[p].avg_rating = <<9, 2>>

\* C18 witness: of the ratings 5, 3, 4 of one provider the 3 was deleted and the
\* stored average is 9/2.
C18_Witness ==
    /\ resp.op = "delete_review" /\ resp.status_code = 204
    /\ Len(reviews) = 3
    /\ \E p \in Providers :
        /\ \A b \in Rows : bookings[b].provider_id = p
        /\ RatedAs(p, 5) = 1 /\ RatedAs(p, 4) = 1 /\ Cardinality(ReviewsOf(p)) = 2
        /\ provider_profiles[p].avg_rating = <<9, 2>>

\* C20: round trip.  A booking went through create, accept, reschedule and
\* complete and was reviewed; deleting that review next leaves the provider's
\* average rating equal to its value before the review was created, or 0 if it
\* was the provider's only review.
C20_ReviewRoundTrip ==
    [][\A id \in ReviewIds :
        (/\ resp.op = "create_review" /\ resp.status_code = 201
         /\ id = Len(reviews)
         /\ delete_review(id)) =>
            provider_profiles'[reviews[id].provider_id].avg_rating =
                IF ReviewsOf(reviews[id].provider_id) = {id}
                THEN <<0, 1>>
                ELSE rating_before]_vars

\* C20 witness: the review of the second booking, completed at instant 1, was
\* deleted right after its creation; the provider keeps an older review and has
\* the average rating it had before.
C20_Witness ==
    /\ resp.op = "delete_review" /\ resp.status_code = 204
    /\ Len(reviews) = 2 /\ reviews[2] = Deleted /\ reviews[1] /= Deleted
    /\ Len(bookings) = 2
    /\ bookings[2].status = "completed" /\ bookings[2].scheduled_for = 1
    /\ bookings[2].provider_id = reviews[1].provider_id
    /\ provider_profiles[reviews[1].provider_id].avg_rating = rating_before
    /\ rating_before = <<reviews[1].rating, 1>>

\* C16: at most one review exists per booking in every reachable state, also
\* when create review requests for the same booking run concurrently.
C16_OneReviewPerBooking ==
    \A i, j \in 1..Len(reviews) :
        (reviews[i] /= Deleted /\ reviews[j] /= Deleted
            /\ reviews[i].booking_id = reviews[j].booking_id) => i = j

\* C19: once all concurrent create review and delete review requests have
\* finished, every provider's stored average rating equals the mean of the
\* reviews then stored for it (0 if none).
C19_NoLostRatingUpdate ==
    reqs = EmptyBag => \A p \in Providers : StoredAverageIsMean(p)

\* C21: if the review insert of create review succeeds and the following rating
\* recomputation fails, the caller receives an error (500), the review is
\* stored and stays stored (no later step of the request removes it; it is
\* there until an admin deletes it) and the provider's average rating keeps
\* the value it had before the call.
C21_FailedRecomputeKeepsReview ==
    [][\A c \in Customers, b \in 1..MaxReviews, r \in Ratings :
        create_review_execute_raises(c, b, r) =>
            /\ resp'.status_code = 500
            /\ Len(reviews') = Len(reviews) + 1
            /\ reviews'[Len(reviews')].booking_id = b
            /\ reviews'[Len(reviews')].customer_id = c
            /\ reviews'[Len(reviews')].provider_id = bookings[b].provider_id
            /\ reviews'[Len(reviews')].rating = r
            /\ \A i \in 1..Len(reviews) : reviews'[i] = reviews[i]
            /\ \A p \in Providers :
                  provider_profiles'[p].avg_rating = provider_profiles[p].avg_rating]_vars

\* C21 witness: the review of a provider's booking is stored with rating 5, the
\* request was answered 500 and the provider, who has a review with rating 1
\* as well, still shows the average 1 that it had before.
C21_Witness ==
    /\ resp.op = "create_review" /\ resp.status_code = 500
    /\ \E p \in Providers :
        /\ RatedAs(p, 5) = 1 /\ RatedAs(p, 1) = 1
        /\ Cardinality(ReviewsOf(p)) = 2
        /\ provider_profiles[p].avg_rating = <<1, 1>>

\* Slots of provider p on day d; the half-open overlap of a stored slot with
\* the candidate [a, b); a slot whose end is after its start.
SlotsOf(p, d) == {e \in provider_availability : e.provider_id = p /\ e.day_of_week = d}
HalfOpenOverlap(e, a, b) == e.start_time < b /\ e.end_time > a
ProperSlot(e) == e.start_time < e.end_time

\* C22: for stored slots [s, e) with s < e and a candidate [a, b) with a < b of
\* the same provider and day, create and update of an availability slot report
\* Conflict (409) exactly when some stored slot has s < b and e > a: a partial
\* overlap is rejected, a candidate that only touches a slot is accepted, and
\* on update the slot being updated is not compared with itself.
C22_OverlapIsHalfOpen ==
    [][/\ resp'.op = "create_availability" =>
            \A p \in Providers, d \in SlotDays, a \in SlotTimes, b \in SlotTimes :
                (/\ a < b
                 /\ \A e \in SlotsOf(p, d) : ProperSlot(e)
                 /\ create_availability(p, d, a, b)) =>
                    (resp'.status_code = 409 <=>
                        \E e \in SlotsOf(p, d) : HalfOpenOverlap(e, a, b))
       /\ resp'.op = "update_availability" =>
            \A x \in provider_availability, s \in SlotTimes \cup {None},
               t \in SlotTimes \cup {None} :
                LET a == IF s = None THEN x.start_time ELSE s
                    b == IF t = None THEN x.end_time ELSE t
                    others == SlotsOf(x.provider_id, x.day_of_week) \ {x}
                IN  (/\ a < b
                     /\ \A e \in others : ProperSlot(e)
                     /\ update_availability(x.provider_id, x.id, s, t)) =>
                        (resp'.status_code = 409 <=>
                            \E e \in others : HalfOpenOverlap(e, a, b))]_vars

\* C22 witness: a provider has a slot from 0 to 2 and a second slot that an
\* accepted update just moved to touch it (2 to 3): the update answered 200.
C22_Witness ==
    /\ resp.op = "update_availability" /\ resp.status_code = 200
    /\ \E e, f \in provider_availability :
        /\ e.provider_id = f.provider_id /\ e.day_of_week = f.day_of_week
        /\ e.start_time = 0 /\ e.end_time = 2
        /\ f.start_time = 2 /\ f.end_time = 3

\* C24: every stored availability slot has an end time strictly after its
\* start time, after any sequence of create and update calls, also updates
\* that change only the start or only the end.
C24_EndAfterStart ==
    \A e \in provider_availability : e.start_time < e.end_time

\* C25: when create or update of an availability slot is rejected with
\* Conflict (409), the table of slots is exactly what it was before the call:
\* no slot is merged, shortened, replaced, removed or added.
C25_ConflictChangesNothing ==
    [][(resp'.status_code = 409 /\ resp'.op \in {"create_availability", "update_availability"})
          => provider_availability' = provider_availability]_vars

\* C25 witness: an update that would stretch a provider's slot over its
\* neighbour of the same day was answered 409; both slots are stored, touching.
C25_Witness ==
    /\ resp.op = "update_availability" /\ resp.status_code = 409
    /\ \E e, f \in provider_availability :
        /\ e.provider_id = f.provider_id /\ e.day_of_week = f.day_of_week
        /\ e.start_time = 0 /\ e.end_time = 1
        /\ f.start_time = 1 /\ f.end_time = 3

\* C23: in every reachable state no two availability slots of the same provider
\* on the same day overlap (half-open test), after any sequence of create,
\* update and delete of slots and under any interleaving of two such requests
\* of one provider.
C23_NoOverlappingSlots ==
    \A e, f \in provider_availability :
        (e /= f /\ e.provider_id = f.provider_id /\ e.day_of_week = f.day_of_week)
            => ~(e.start_time < f.end_time /\ f.start_time < e.end_time)

\* The distance of provider p from the origin of search request q, and whether
\* p meets the conditions of q (a filter counts when it was supplied).
DistanceOf(p, q) ==
    IF provider_profiles[p].location >= q.origin
    THEN provider_profiles[p].location - q.origin
    ELSE q.origin - provider_profiles[p].location
Meets(p, q) ==
    /\ provider_profiles[p].is_verified
    /\ provider_profiles[p].location /= None
    /\ DistanceOf(p, q) <= q.radius_km
    /\ q.category_id /= None => provider_profiles[p].category_id = q.category_id
    /\ q.min_rating /= None =>
          /\ provider_profiles[p].avg_rating /= NULL
          /\ provider_profiles[p].avg_rating[1]
                >= q.min_rating * provider_profiles[p].avg_rating[2]
    /\ q.min_price /= None => provider_profiles[p].base_price >= q.min_price
    /\ q.max_price /= None => provider_profiles[p].base_price <= q.max_price
Matching(q) == {p \in Providers : Meets(p, q)}
Returned == {resp.providers[i] : i \in 1..Len(resp.providers)}

\* C26: search returns a provider only if it is verified, has a location, lies
\* at a distance <= radius from the origin and satisfies every filter that was
\* supplied (category equal to the given id, for every id including 0; average
\* rating >= min-rating; min-price <= base price <= max-price); and every
\* provider meeting these conditions is in the result when pagination cuts
\* nothing off (offset 0, limit not below the number of such providers).
C26_SearchReturnsTheMatches ==
    resp.op = "search_providers" =>
        /\ \A p \in Returned : Meets(p, resp.request)
        /\ (resp.request.offset = 0
                /\ resp.request.limit >= Cardinality(Matching(resp.request)))
              => \A p \in Matching(resp.request) : p \in Returned

\* The distance-sorted lists of the providers matching request q
SortedMatching(q) ==
    {full \in [1..Cardinality(Matching(q)) -> Matching(q)] :
        /\ \A p \in Matching(q) : \E i \in DOMAIN full : full[i] = p
        /\ \A i \in DOMAIN full : \A j \in DOMAIN full :
              i < j => DistanceOf(full[i], q) <= DistanceOf(full[j], q)}

\* C27: the list search returns is in non-decreasing order of distance from
\* the origin and is exactly the elements at positions offset .. offset+limit-1
\* of a distance-sorted list of all matching providers; it never has more than
\* limit entries and is empty when offset is at or past the number of matches.
C27_SearchPageOfSortedMatches ==
    resp.op = "search_providers" =>
        /\ \A i \in 1..Len(resp.providers) : \A j \in 1..Len(resp.providers) :
              i < j => DistanceOf(resp.providers[i], resp.request)
                        <= DistanceOf(resp.providers[j], resp.request)
        /\ Len(resp.providers) <= resp.request.limit
        /\ resp.request.offset >= Cardinality(Matching(resp.request))
              => resp.providers = <<>>
        /\ \E full \in SortedMatching(resp.request) :
              /\ \A i \in 1..Len(resp.providers) :
                    /\ resp.request.offset + i <= Len(full)
                    /\ resp.providers[i] = full[resp.request.offset + i]
              /\ \A k \in 1..Len(full) :
                    (k > resp.request.offset
                        /\ k <= resp.request.offset + resp.request.limit)
                      => k - resp.request.offset <= Len(resp.providers)

\* The caller with credential c has a valid identity whose role in the role
\* directory is `role` (for a provider: and a provider profile); a step that
\* rejects the caller and changes no table.
Authorized(c, role) ==
    /\ c \in 1..NoProfile
    /\ c \in DOMAIN profiles
    /\ profiles[c].role = role
    /\ role = "provider" => \E p \in Providers : NumCustomers + p = c
Rejected ==
    /\ resp'.status_code \in {401, 403, 404}
    /\ UNCHANGED <<bookings, provider_profiles, provider_availability, reviews>>
SearchGated(c) ==
    (\E r \in AccessSearches : search_providers_route(c, r))
        => (Authorized(c, "customer") \/ Rejected)
BookingsGated(c) ==
    /\ (\E p \in AccessProviders, t \in AccessInstants : create_booking_route(c, p, t))
        => (Authorized(c, "customer") \/ Rejected)
    /\ (\E b \in BookingIds : cancel_booking_route(c, b))
        => (Authorized(c, "customer") \/ Rejected)
    /\ (\E b \in BookingIds : accept_booking_route(c, b))
        => (Authorized(c, "provider") \/ Rejected)
    /\ (\E b \in BookingIds : reject_booking_route(c, b))
        => (Authorized(c, "provider") \/ Rejected)
    /\ (\E b \in BookingIds, t \in AccessInstants : reschedule_booking_route(c, b, t))
        => (Authorized(c, "provider") \/ Rejected)
    /\ (\E b \in BookingIds : complete_booking_route(c, b))
        => (Authorized(c, "provider") \/ Rejected)
SlotsAndReviewsGated(c) ==
    /\ (\E s \in Times, e \in Times : create_availability_route(c, SlotDay, s, e))
        => (Authorized(c, "provider") \/ Rejected)
    /\ (\E id \in SlotIds, s \in {None, 0}, e \in {None, TimesPerDay - 1} :
            update_availability_route(c, id, s, e))
        => (Authorized(c, "provider") \/ Rejected)
    /\ (\E id \in SlotIds : delete_availability_route(c, id))
        => (Authorized(c, "provider") \/ Rejected)
    /\ (\E b \in BookingIds, r \in AccessRatings : create_review_route(c, b, r))
        => (Authorized(c, "customer") \/ Rejected)
    /\ (\E id \in ReviewIds : delete_review_route(c, id))
        => (Authorized(c, "admin") \/ Rejected)

\* C28: every core operation (search, the booking operations, the slot
\* operations, create and delete review) runs only for a caller with a valid
\* identity whose role in the role directory is the one the operation needs
\* (customer; provider with a provider profile; admin); a call without a valid
\* identity or with another role is rejected and changes no state.
C28_OnlyAuthorizedCallers ==
    [][\A c \in AccessCredentials :
          SearchGated(c) /\ BookingsGated(c) /\ SlotsAndReviewsGated(c)]_vars

\* C29: accept, reject, reschedule and complete called by a provider who is not
\* the booking's provider, and cancel called by a customer who is not the
\* booking's customer, fail with NotFound (404) and leave the booking (status
\* and scheduled instant, and every other booking) unchanged, whatever the
\* booking's status is.
C29_NotOwnerNotFound ==
    [][/\ \A p \in Providers, b \in Rows :
            (/\ bookings[b].provider_id /= p
             /\ \/ accept_booking(p, b)
                \/ reject_booking(p, b)
                \/ complete_booking(p, b)
                \/ \E t \in Instants : reschedule_booking(p, b, t)) =>
                /\ resp'.status_code = 404
                /\ bookings' = bookings
       /\ \A c \in Customers, b \in Rows :
            (bookings[b].customer_id /= c /\ cancel_booking(c, b)) =>
                /\ resp'.status_code = 404
                /\ bookings' = bookings]_vars

\* C29 witness: every booking id is taken, every booking is of the same
\* provider and completed, and a complete call was answered 404: it named a
\* stored booking and came from the other provider.
C29_Witness ==
    /\ resp.op = "complete" /\ resp.status_code = 404
    /\ Len(bookings) = MaxBookings
    /\ \A b \in Rows :
        /\ bookings[b].status = "completed"
        /\ bookings[b].provider_id = bookings[1].provider_id

\* C30: in every reachable state every stored review belongs to a booking whose
\* status is completed, also when create review runs concurrently with cancel,
\* complete or other transitions of the same booking.
C30_ReviewedBookingCompleted ==
    \A i \in 1..Len(reviews) :
        reviews[i] /= Deleted =>
            /\ reviews[i].booking_id \in Rows
            /\ bookings[reviews[i].booking_id].status = "completed"

\* C31: a booking's total price never changes after creation: a change of the
\* provider's base price through the profile update, and every transition
\* (accept, reject, reschedule, complete, cancel), leave the total price of
\* every existing booking as it was.
C31_TotalPriceFrozen ==
    [][\A b \in 1..Len(bookings) :
          /\ b <= Len(bookings')
          /\ bookings'[b].total_price = bookings[b].total_price]_vars

\* A profile update has just changed the base price of a provider who has a
\* booking priced with the old one.
C31_Witness ==
    /\ resp.op = "update_my_profile"
    /\ \E b \in 1..Len(bookings) :
          /\ bookings[b].total_price /= None
          /\ bookings[b].total_price /= provider_profiles[bookings[b].provider_id].base_price
          /\ bookings[b].status = "confirmed"

\* C32: a provider's average rating is changed only by create_review and
\* delete_review: the provider's profile update, the admin's verification,
\* every booking operation and every availability operation leave it as it was.
C32_RatingWrittenByReviewsOnly ==
    [][(\E p \in Providers :
            provider_profiles'[p].avg_rating /= provider_profiles[p].avg_rating)
          => resp'.op \in {"create_review", "delete_review"}]_vars

\* A rated provider has just updated their profile.
C32_Witness ==
    /\ resp.op = "update_my_profile"
    /\ \E p \in Providers :
          /\ provider_profiles[p].avg_rating \notin {Zero, NULL}
          /\ provider_profiles[p].base_price = NumProviders

\* C33: a category is never deleted while a provider profile references it:
\* in every reachable state, also when delete_category runs concurrently with
\* a provider setting that category on their profile, every provider's
\* category reference is either null or the id of an existing category.
C33_CategoryReferencesExist ==
    \A p \in Providers :
        provider_profiles[p].category_id = None \/ provider_profiles[p].category_id \in categories

\* The calendar day of an instant (instant 0 is a Monday) and the index of a
\* day in the Sunday = 0 .. Saturday = 6 convention of the stored slots.
CalendarDay(t) ==
    <<"Monday", "Tuesday", "Wednesday", "Thursday", "Friday", "Saturday", "Sunday">>[
        ((t \div TimesPerDay) % 7) + 1]

SundayIndex(day) ==
    CASE day = "Sunday" -> 0 [] day = "Monday" -> 1 [] day = "Tuesday" -> 2
      [] day = "Wednesday" -> 3 [] day = "Thursday" -> 4 [] day = "Friday" -> 5
      [] day = "Saturday" -> 6

WorksOn(p, day) ==
    \E s \in provider_availability : s.provider_id = p /\ s.day_of_week = SundayIndex(day)

\* C34: the day-of-week that the availability check of create_booking and of
\* reschedule_booking uses is the Sunday = 0 .. Saturday = 6 index of the
\* instant's calendar day, the convention of the stored slots: with a provider
\* working one whole day of the week, a booking is created or rescheduled
\* exactly at the free instants of that calendar day, and refused as outside
\* the provider's availability on the six other days.
C34_SundayIsZero ==
    [][/\ \A c \in BackendCustomers, p \in ProfileProviders, t \in WeekInstants :
            create_booking(c, p, t) =>
                /\ resp'.status_code = 201 <=>
                      (WorksOn(p, CalendarDay(t)) /\ ~OtherActiveAt(0, p, t))
                /\ (~WorksOn(p, CalendarDay(t)) /\ ~OtherActiveAt(0, p, t)) =>
                      /\ resp'.status_code = 400
                      /\ resp'.detail = "Provider is not available at this time"
       /\ \A p \in ProfileProviders, b \in BookingIds, t \in WeekInstants :
            (reschedule_booking(p, b, t) /\ b \in Rows /\ ~OtherActiveAt(b, p, t)
                /\ bookings[b].status \in {"pending", "confirmed", "rescheduled"}) =>
                /\ resp'.status_code = 200 <=> WorksOn(p, CalendarDay(t))
                /\ ~WorksOn(p, CalendarDay(t)) =>
                      /\ resp'.status_code = 400
                      /\ resp'.detail = "Provider is not available at the new time"]_vars

\* A booking has just been moved to another instant of a Sunday, at a
\* provider whose slot is stored with day_of_week 0.
C34_Witness ==
    /\ resp.op = "reschedule" /\ resp.status_code = 200
    /\ \E b \in Rows :
          /\ bookings[b].status = "rescheduled"
          /\ CalendarDay(bookings[b].scheduled_for) = "Sunday"
          /\ \E s \in provider_availability :
                s.provider_id = bookings[b].provider_id /\ s.day_of_week = 0

\* C35: every stored review carries the provider of its booking and the
\* customer of its booking, so a rating is counted for the provider who served
\* the booking.
C35_ReviewCarriesBookingParties ==
    \A i \in 1..Len(reviews) :
        reviews[i] /= Deleted =>
            /\ reviews[i].booking_id \in Rows
            /\ reviews[i].provider_id = bookings[reviews[i].booking_id].provider_id
            /\ reviews[i].customer_id = bookings[reviews[i].booking_id].customer_id

\* Two stored reviews of two customers for two providers.
C35_Witness ==
    \E i, j \in 1..Len(reviews) :
        /\ reviews[i] /= Deleted /\ reviews[j] /= Deleted
        /\ reviews[i].provider_id /= reviews[j].provider_id
        /\ reviews[i].customer_id /= reviews[j].customer_id
        /\ resp.op = "create_review" /\ resp.status_code = 201

\* Row b after the step is row b before it, but for the columns named.
SameBut(b, columns) ==
    /\ b <= Len(bookings')
    /\ \A k \in DOMAIN bookings[b] : k \notin columns => bookings'[b][k] = bookings[b][k]

OthersKept(b) ==
    /\ Len(bookings') = Len(bookings)
    /\ \A j \in Rows : j /= b => bookings'[j] = bookings[j]

\* C36: accept, reject, complete and cancel change only the status of the one
\* booking they name; reschedule changes only that booking's status and
\* scheduled instant.  The customer, the provider and the other columns written
\* at creation never change, and no transition changes any other booking.
C36_TransitionsWriteOneBooking ==
    [][/\ resp'.op = "accept" =>
            \A p \in Providers, b \in BookingIds :
                accept_booking(p, b) =>
                    (OthersKept(b) /\ (b \in Rows => SameBut(b, {"status"})))
       /\ resp'.op = "reject" =>
            \A p \in Providers, b \in BookingIds :
                reject_booking(p, b) =>
                    (OthersKept(b) /\ (b \in Rows => SameBut(b, {"status"})))
       /\ resp'.op = "complete" =>
            \A p \in Providers, b \in BookingIds :
                complete_booking(p, b) =>
                    (OthersKept(b) /\ (b \in Rows => SameBut(b, {"status"})))
       /\ resp'.op = "cancel" =>
            \A c \in Customers, b \in BookingIds :
                cancel_booking(c, b) =>
                    (OthersKept(b) /\ (b \in Rows => SameBut(b, {"status"})))
       /\ resp'.op = "reschedule" =>
            \A p \in Providers, b \in BookingIds, t \in Instants :
                reschedule_booking(p, b, t) =>
                    (OthersKept(b) /\ (b \in Rows => SameBut(b, {"status", "scheduled_for"})))
       /\ \A b \in Rows : SameBut(b, {"status", "scheduled_for"})]_vars

\* One of two pending bookings of a provider has just been accepted; the other
\* is still pending.
C36_Witness ==
    /\ resp.op = "accept" /\ resp.status_code = 200
    /\ \E b, j \in Rows :
          /\ b /= j
          /\ bookings[b].provider_id = bookings[j].provider_id
          /\ bookings[b].status = "confirmed"
          /\ bookings[j].status = "pending"

\* C37: in every reachable state, every booking with status pending, confirmed
\* or rescheduled has a scheduled instant that lies inside an availability
\* slot of its provider for that weekday, after any sequence of booking
\* operations and availability create, update and delete operations.
C37_ActiveBookingsInsideSlots ==
    \A b \in Rows :
        bookings[b].status \in {"pending", "confirmed", "rescheduled"}
            => InsideSlot(bookings[b].provider_id, bookings[b].scheduled_for)

\* C38: no provider ever has two bookings with status confirmed at the same
\* scheduled instant, under any interleaving of concurrent create, accept and
\* reschedule requests, an accept and a reschedule of the same booking
\* included.
C38_NoTwoConfirmedAtOneInstant ==
    \A i, j \in Rows :
        (/\ i /= j
         /\ bookings[i].provider_id = bookings[j].provider_id
         /\ bookings[i].scheduled_for = bookings[j].scheduled_for
         /\ bookings[i].status = "confirmed")
            => bookings[j].status /= "confirmed"

\* C39: a pending booking can always be accepted by its provider unless a
\* confirmed or rescheduled booking of that provider holds the same instant;
\* in particular, of two pending bookings that two concurrent create_booking
\* requests stored for one provider and instant, at least one can be accepted
\* without first rejecting, cancelling or rescheduling the other.
C39_PendingBookingAcceptable ==
    [][resp'.op = "accept" =>
          \A p \in Providers, b \in BookingIds :
              (/\ accept_booking(p, b)
               /\ Owns(b, "provider_id", p)
               /\ bookings[b].status = "pending"
               /\ ~\E j \in Rows :
                     /\ j /= b
                     /\ bookings[j].provider_id = p
                     /\ bookings[j].scheduled_for = bookings[b].scheduled_for
                     /\ bookings[j].status \in {"confirmed", "rescheduled"})
                  => (resp'.status_code = 200 /\ bookings'[b].status = "confirmed")]_vars

\* C40: once a user has role admin, a user with role admin exists in every
\* reachable state, under any sequence and any interleaving of
\* update_user_role requests.
C40_AnAdminExists == \E u \in DOMAIN profiles : profiles[u].role = "admin"

====
